---------------------------- MODULE Spec2Model ----------------------------
(***************************************************************************)
(* A model of soundcloud-fs: the composable seekable streams of            *)
(* src/src/ioutil (Concat, LazyOpen, Skip), the HTTP range reader of        *)
(* src/src/soundcloud/util/http.rs, the memoizing directory cache of        *)
(* src/src/filesystem/nodecache.rs and the FUSE responder of                *)
(* src/src/filesystem/mod.rs.                                               *)
(*                                                                         *)
(* Streams are records tagged with a "kind"; read and seek are operators    *)
(* that return the new stream state together with the io::Result:          *)
(*   [f |-> stream after the call, ok |-> Ok/Err, v |-> value]              *)
(* where v is the sequence of bytes delivered (read) or the new position    *)
(* (seek).  A SeekFrom is [whence |-> "Start"|"End"|"Current", off |-> n].  *)
(***************************************************************************)
EXTENDS Integers, Sequences, FiniteSets, TLC

VARIABLES
    \* ---- Concat over plain sources (concat.rs) ----
    cc,        \* the Concat
    ccData,    \* the byte sequence that was partitioned over the sources
    ccOut,     \* bytes delivered since construction or since the last seek
    ccFresh,   \* no seek has been issued on this Concat yet
    ccSeek,    \* the last seek: [pos, ok, ret, back (to an earlier source)]
    ccLast,    \* the last operation: [op, ok, short (fewer bytes than the
               \* buffer holds), eof (0 bytes into a non-empty buffer)]
    \* ---- the reader of a track file (mapping.rs, TrackAudio::open_ro) ----
    tr,        \* the Concat returned by open_ro
    trLast,    \* the last operation on it: [op, k, size, ok, data]
    \* ---- DirCache over a backend directory (nodecache.rs) ----
    dc,        \* the DirCache
    dcCalls,   \* calls made to the inner directory
    dcLast,    \* the last call on the DirCache and its outcome (ans: what
               \* the inner directory answered; stale: served from the
               \* cache while the inner directory would answer otherwise)
    dcFirst,   \* per name, the first node/NotFound outcome of file_by_name
    dcListing, \* the listing returned by the first successful files()
    \* ---- the FUSE responder (filesystem/mod.rs) ----
    nodes, read_handles, next_read_handle, readdir_handles,
    next_readdir_handle,
    reply,     \* the last request and the reply to it
    produced,  \* per (parent inode, name), the inode numbers reported for
               \* that child so far by lookup and by opendir
    hasher,    \* which function the DefaultHasher of this build computes
    hist,      \* what the kernel side has seen of the handles: the ids
               \* open and opendir returned with what they stood for, the
               \* ids released, and the directory enumeration in progress
    \* ---- one LazyOpen next to the eagerly opened resource (lazyopen.rs) ----
    lz,        \* the LazyOpen
    lzRef,     \* the same resource opened eagerly, given the same calls
    lzLast,    \* the last call: its Result on lz and on lzRef
    \* ---- single streams driven on their own ----
    rs,        \* a RangeSeeker (soundcloud/util/http.rs)
    rsLog,     \* the calls made on rs since RangeSeeker::new, oldest first,
               \* each with its Result and num_requests after it
    st,        \* a Skip (ioutil/skip.rs) or a Pattern (ioutil/pattern.rs)
    stRef,     \* an io::Cursor over the bytes st stands for, given the
               \* same calls
    stLast     \* the last call: its Result on st and on stRef

ccVars == <<cc, ccData, ccOut, ccFresh, ccSeek, ccLast>>
trVars == <<tr, trLast>>
dcVars == <<dc, dcCalls, dcLast, dcFirst, dcListing>>
fsVars == <<nodes, read_handles, next_read_handle, readdir_handles,
            next_readdir_handle, reply, produced, hasher, hist>>
lzVars == <<lz, lzRef, lzLast>>
ioVars == <<rs, rsLog, st, stRef, stLast>>
vars == <<ccVars, trVars, dcVars, fsVars, lzVars, ioVars>>

Min(a, b) == IF a < b THEN a ELSE b
Max(a, b) == IF a > b THEN a ELSE b

\* ------------------------------------------------------------------------
\* Bounds of the model
\* ------------------------------------------------------------------------
\* sources in a Concat
MaxFiles == 2
\* bytes per source
MaxChunk == 2
\* read buffer length
MaxBuf == 2
\* how far past the end a seek may go
MaxBeyond == 1
\* length of the ID3 tag of the track
TagLen == 1
\* length of one MPEG frame (417 in mp3.rs)
FrameLen == 2
\* frames of padding before and after the audio (500 and 20 in mapping.rs)
PaddingStart == 1
PaddingEnd == 1
\* the nominal audio size of the track, Track::audio_size()
AudioSize == 3
\* HTTP requests a RangeSeeker may issue
MaxRequests == 4

\* io::Result
R(f, ok, v) == [f |-> f, ok |-> ok, v |-> v]

Start(n) == [whence |-> "Start", off |-> n]
End(n) == [whence |-> "End", off |-> n]
Current(n) == [whence |-> "Current", off |-> n]

\* index_up_to(std::u64::MAX): TLC integers are 32 bit wide, every offset of
\* the model is far below this value.
U64_MAX == 1073741823

\* `let r = <call>; <rest>`: the result of a call is bound once and handed
\* to what follows it.
Then(r, rest(_)) == rest(r)

\* ------------------------------------------------------------------------
\* std::io::Cursor<Vec<u8>>
\* ------------------------------------------------------------------------
Cursor(data) == [kind |-> "cursor", data |-> data, pos |-> 0]

CursorRead(f, n) ==
    LET from == Min(f.pos, Len(f.data))
        k == Min(n, Len(f.data) - from)
    IN R([f EXCEPT !.pos = f.pos + k], TRUE, SubSeq(f.data, from + 1, from + k))

CursorSeek(f, pos) ==
    IF pos.whence = "Start"
    THEN R([f EXCEPT !.pos = pos.off], TRUE, pos.off)
    ELSE LET base == IF pos.whence = "End" THEN Len(f.data) ELSE f.pos
             new == base + pos.off
         IN IF new < 0 THEN R(f, FALSE, "invalid seek to a negative position")
            ELSE R([f EXCEPT !.pos = new], TRUE, new)

\* ------------------------------------------------------------------------
\* soundcloud/util/http.rs: RangeSeeker.  The remote resource is `data`.
\* An open response is represented by the index of the next byte its body
\* will deliver.  `net` is what the network does during the call at hand:
\* the statuses the coming requests are answered with (0, or none left:
\* the range-capable server's own status), and the number of bytes after
\* which reading a response body fails (never: -1).
\* ------------------------------------------------------------------------
NoCache == [has |-> FALSE, resp |-> 0, off |-> 0]

RangeSeeker(data) ==
    [kind |-> "range", data |-> data, num_requests |-> 0,
     state |-> "NoResponse", resp |-> 0, current_offset |-> 0,
     content_length |-> -1, response_cache |-> NoCache,
     net |-> [statuses |-> <<>>, cut |-> -1]]

\* The status a range-capable server gives to "Range: bytes=<o>-".
ServerStatus(data, o) == IF o >= Len(data) THEN 416 ELSE 206

\* Variant: the Content-Length of the response is taken for the length of
\* the resource.
next_resp_ok_remaining(f) ==
    R([f EXCEPT !.content_length = Len(f.data) - f.current_offset,
                !.state = "Response", !.resp = f.current_offset],
      TRUE, 0)

\* What next_resp does with a 206 answer to the request at
\* self.current_offset (lines 72-84).
next_resp_ok(f) ==
    R([f EXCEPT !.content_length = f.current_offset + (Len(f.data) - f.current_offset),
                !.state = "Response", !.resp = f.current_offset],
      TRUE, 0)

\* Variant: a 200 answer is taken at every offset.
next_resp_any200(f) ==
    LET status(x) == IF x.net.statuses = <<>> \/ Head(x.net.statuses) = 0
                     THEN ServerStatus(x.data, x.current_offset)
                     ELSE Head(x.net.statuses)
        \* lines 53-57: the request is counted and answered
        sent(x) == [x EXCEPT !.num_requests = @ + 1,
                             !.net.statuses = IF @ = <<>> THEN <<>> ELSE Tail(@)]
        accepted(x, code) == code = 206 \/ code = 200
        \* lines 68-93: error_for_status returns before the state is
        \* touched, any other status resets it
        refused(x, code) == R([x EXCEPT !.state = IF code >= 400 THEN @ ELSE "NoResponse"],
                            FALSE, "range request did not return Partial Content")
        s1 == status(f)
        nested == [sent(f) EXCEPT !.current_offset = 0]
        s2 == status(nested)
    IN IF s1 = 416
       THEN IF s2 = 416
            \* the nested call at offset 0 is answered 416 as well: the
            \* recursion does not end
            THEN R([f EXCEPT !.num_requests = @ + 2, !.current_offset = 0,
                             !.state = "Diverged"], FALSE, "unbounded recursion")
            ELSE IF accepted(nested, s2)
            THEN R([sent(nested) EXCEPT !.content_length = Len(f.data),
                                        !.resp = 0,
                                        !.state = "OutOfRange",
                                        !.current_offset = f.current_offset],
                   TRUE, 0)
            \* line 62: the error leaves next_resp with current_offset at 0
            ELSE refused(sent(nested), s2)
       ELSE IF accepted(f, s1) THEN next_resp_ok(sent(f))
       ELSE refused(sent(f), s1)

next_resp(f) ==
    LET status(x) == IF x.net.statuses = <<>> \/ Head(x.net.statuses) = 0
                     THEN ServerStatus(x.data, x.current_offset)
                     ELSE Head(x.net.statuses)
        \* lines 53-57: the request is counted and answered
        sent(x) == [x EXCEPT !.num_requests = @ + 1,
                             !.net.statuses = IF @ = <<>> THEN <<>> ELSE Tail(@)]
        accepted(x, code) == code = 206 \/ (code = 200 /\ x.current_offset = 0)
        \* lines 68-93: error_for_status returns before the state is
        \* touched, any other status resets it
        refused(x, code) == R([x EXCEPT !.state = IF code >= 400 THEN @ ELSE "NoResponse"],
                            FALSE, "range request did not return Partial Content")
        s1 == status(f)
        nested == [sent(f) EXCEPT !.current_offset = 0]
        s2 == status(nested)
    IN IF s1 = 416
       THEN IF s2 = 416
            \* the nested call at offset 0 is answered 416 as well: the
            \* recursion does not end
            THEN R([f EXCEPT !.num_requests = @ + 2, !.current_offset = 0,
                             !.state = "Diverged"], FALSE, "unbounded recursion")
            ELSE IF accepted(nested, s2)
            THEN R([sent(nested) EXCEPT !.content_length = Len(f.data),
                                        !.resp = 0,
                                        !.state = "OutOfRange",
                                        !.current_offset = f.current_offset],
                   TRUE, 0)
            \* line 62: the error leaves next_resp with current_offset at 0
            ELSE refused(sent(nested), s2)
       ELSE IF accepted(f, s1) THEN next_resp_ok(sent(f))
       ELSE refused(sent(f), s1)

\* Variant: the bytes a read delivers are not added to current_offset.
RangeSeekerDrain_stale(f, n) ==
    IF f.state = "OutOfRange" THEN R(f, TRUE, <<>>)
    ELSE LET k == Min(n, Len(f.data) - f.resp)
         IN R([f EXCEPT !.resp = @ + k],
              TRUE, SubSeq(f.data, f.resp + 1, f.resp + k))

\* The body of RangeSeeker::read once a response is at hand (lines 111-126).
RangeSeekerDrain(f, n) ==
    IF f.state = "OutOfRange" THEN R(f, TRUE, <<>>)
    ELSE LET k == Min(n, Len(f.data) - f.resp)
         IN IF f.net.cut >= 0 /\ f.net.cut < k
            \* res.read fails after it has delivered net.cut bytes: the `?` of
            \* line 122 returns before line 125
            THEN R([f EXCEPT !.resp = @ + f.net.cut], FALSE, "body read failed")
            ELSE R([f EXCEPT !.resp = @ + k, !.current_offset = @ + k],
                   TRUE, SubSeq(f.data, f.resp + 1, f.resp + k))

\* Variant: every read asks for a new response at the current offset.
RangeSeekerRead_refetch(f, n) ==
    IF f.content_length # -1 /\ f.current_offset >= f.content_length
    THEN R([f EXCEPT !.response_cache = NoCache], TRUE, <<>>)
    ELSE Then(next_resp([f EXCEPT !.response_cache = NoCache]),
              LAMBDA r : IF ~r.ok THEN r ELSE RangeSeekerDrain(r.f, n))

RangeSeekerRead(f, n) ==
    IF f.content_length # -1 /\ f.current_offset >= f.content_length
    THEN R([f EXCEPT !.response_cache = NoCache], TRUE, <<>>)
    ELSE IF f.state = "NoResponse"
    THEN Then(next_resp([f EXCEPT !.response_cache = NoCache]),
              LAMBDA r : IF ~r.ok THEN r ELSE RangeSeekerDrain(r.f, n))
    ELSE RangeSeekerDrain([f EXCEPT !.response_cache = NoCache], n)

valid_offset(offset) ==
    IF offset < 0 THEN [ok |-> FALSE, v |-> "can not seek"] ELSE [ok |-> TRUE, v |-> offset]

\* Variant: the response that is left behind is dropped, not stashed.
RangeSeekerMove_nostash(f, pos, abs_offset) ==
    IF f.current_offset # abs_offset
    THEN R([f EXCEPT !.state = IF pos = End(0) THEN "OutOfRange" ELSE "NoResponse",
                     !.response_cache = NoCache,
                     !.current_offset = abs_offset],
           TRUE, abs_offset)
    ELSE R(f, TRUE, abs_offset)

\* The part of RangeSeeker::seek after abs_offset is known (lines 143-172).
RangeSeekerMove(f, pos, abs_offset) ==
    IF f.current_offset # abs_offset
    THEN LET revive == f.response_cache.has /\ f.response_cache.off = abs_offset
             cache == IF f.state = "Response"
                      THEN [has |-> TRUE, resp |-> f.resp, off |-> f.current_offset]
                      ELSE IF revive THEN NoCache ELSE f.response_cache
         IN R([f EXCEPT !.state = IF revive THEN "Response"
                                  ELSE IF pos = End(0) THEN "OutOfRange"
                                  ELSE "NoResponse",
                        !.resp = IF revive THEN f.response_cache.resp ELSE @,
                        !.response_cache = cache,
                        !.current_offset = abs_offset],
              TRUE, abs_offset)
    ELSE R(f, TRUE, abs_offset)

\* SeekFrom::End once the content length is known.
RangeSeekerSeekEnd(f, pos) ==
    IF f.content_length + pos.off < 0 THEN R(f, FALSE, "can not seek")
    ELSE RangeSeekerMove(f, pos, f.content_length + pos.off)

RangeSeekerSeek(f, pos) ==
    IF pos.whence = "Start" THEN RangeSeekerMove(f, pos, pos.off)
    ELSE IF pos.whence = "End"
    THEN IF f.content_length = -1
         THEN Then(next_resp(f),
                   LAMBDA r : IF ~r.ok THEN r ELSE RangeSeekerSeekEnd(r.f, pos))
         ELSE RangeSeekerSeekEnd(f, pos)
    ELSE IF ~valid_offset(f.current_offset + pos.off).ok
         THEN R(f, FALSE, "can not seek")
         ELSE RangeSeekerMove(f, pos, f.current_offset + pos.off)

\* ------------------------------------------------------------------------
\* ioutil/skip.rs.  The inner stream T of a Skip<T> is a RangeSeeker
\* (mapping.rs) or an io::Cursor (tests).
\* ------------------------------------------------------------------------
InnerRead(f, n) ==
    IF f.kind = "range" THEN RangeSeekerRead(f, n) ELSE CursorRead(f, n)

InnerSeek(f, pos) ==
    IF f.kind = "range" THEN RangeSeekerSeek(f, pos) ELSE CursorSeek(f, pos)

Skip(inner, offset) ==
    [kind |-> "skip", inner |-> inner, offset |-> offset, initial_skip |-> FALSE]

SkipRead(f, n) ==
    Then(IF ~f.initial_skip THEN InnerSeek(f.inner, Start(f.offset))
         ELSE R(f.inner, TRUE, 0),
         LAMBDA s :
            IF ~s.ok THEN R([f EXCEPT !.inner = s.f], FALSE, s.v)
            ELSE Then(InnerRead(s.f, n),
                      LAMBDA r : R([f EXCEPT !.inner = r.f, !.initial_skip = TRUE],
                                   r.ok, r.v)))

SkipSeek(f, pos) ==
    Then(InnerSeek(f.inner,
                   IF pos.whence = "Start" THEN Start(f.offset + pos.off) ELSE pos),
         LAMBDA r :
            IF ~r.ok THEN R([f EXCEPT !.inner = r.f], FALSE, r.v)
            \* u64 subtraction: a position before self.offset overflows
            ELSE IF r.v < f.offset THEN R([f EXCEPT !.inner = r.f], FALSE, "overflow")
            ELSE R([f EXCEPT !.inner = r.f], TRUE, r.v - f.offset))

\* ------------------------------------------------------------------------
\* ioutil/pattern.rs.  `checked` is whether the build traps integer
\* overflow (a debug build panics) or wraps (a release build).
\* ------------------------------------------------------------------------
Pattern(pat, size) ==
    [kind |-> "pattern", pat |-> pat, size |-> size, offset |-> 0, checked |-> TRUE]

\* The copy loop of Pattern::read (lines 29-37): `want` is what is left of
\* sub_buf, `out` the bytes copied so far.
RECURSIVE PatternFill(_, _, _)
PatternFill(f, want, out) ==
    IF want = 0 THEN R(f, TRUE, out)
    ELSE LET pat_start == f.offset % Len(f.pat)
             pat_end == Min(pat_start + want, Len(f.pat))
             buf_end == Min(want, pat_end - pat_start)
         IN PatternFill([f EXCEPT !.offset = @ + buf_end], want - buf_end,
                        out \o SubSeq(f.pat, pat_start + 1, pat_start + buf_end))

\* Pattern::read.  self.size - self.offset is a u64 subtraction: with the
\* offset past the size it panics when checked and otherwise wraps to a
\* value above any buffer length.
PatternRead(f, n) ==
    IF Len(f.pat) = 0 THEN R(f, TRUE, <<>>)
    ELSE IF f.size - f.offset < 0
    THEN IF f.checked THEN R(f, FALSE, "panic: attempt to subtract with overflow")
         ELSE PatternFill(f, n, <<>>)
    ELSE PatternFill(f, Min(f.size - f.offset, n), <<>>)

PatternSeek(f, pos) ==
    LET new_offset == IF pos.whence = "Start" THEN pos.off
                      ELSE IF pos.whence = "Current" THEN f.offset + pos.off
                      ELSE f.size + pos.off
    IN IF new_offset < 0 THEN R(f, FALSE, "seek position resolves to negative")
       ELSE R([f EXCEPT !.offset = new_offset], TRUE, new_offset)

\* ------------------------------------------------------------------------
\* ioutil/lazyopen.rs.  `opener` is the resource the open_fn returns,
\* `open_ok` whether it returns Ok; size_hint and size_hint_seek_dirty are
\* Options: None is -1 for the size hint and NoSeek for the position.  The resource T of a LazyOpen<_, T> is a
\* Skip (mapping.rs) or an io::Cursor (tests).
\* ------------------------------------------------------------------------
ResourceRead(f, n) ==
    IF f.kind = "skip" THEN SkipRead(f, n) ELSE CursorRead(f, n)

ResourceSeek(f, pos) ==
    IF f.kind = "skip" THEN SkipSeek(f, pos) ELSE CursorSeek(f, pos)

NoSeek == [whence |-> "None", off |-> 0]

LazyOpen(size_hint, opener, open_ok) ==
    [kind |-> "lazy", state |-> "Unopened", opener |-> opener, open_ok |-> open_ok,
     file |-> "None", opens |-> 0,
     size_hint |-> size_hint, size_hint_seek_dirty |-> NoSeek]

\* the second half of file_mut: the state has been swapped to Init, the
\* opener is called and its result becomes the state
open_fn(f) ==
    IF f.open_ok
    THEN R([f EXCEPT !.state = "Opened", !.file = f.opener, !.opens = @ + 1], TRUE, 0)
    ELSE R([f EXCEPT !.state = "Error", !.opens = @ + 1], FALSE, "open failed")

\* file_mut calling the opener again after it has failed
file_mut_retry(f) ==
    IF f.state = "Opened" THEN R(f, TRUE, 0)
    ELSE open_fn([f EXCEPT !.state = "Init"])

file_mut(f) ==
    IF f.state = "Opened" THEN R(f, TRUE, 0)
    ELSE IF f.state = "Error" THEN R(f, FALSE, "open failed")
    ELSE open_fn([f EXCEPT !.state = "Init"])

LazyOpenRead(f, n) ==
    Then(file_mut([f EXCEPT !.size_hint_seek_dirty = NoSeek]),
         LAMBDA m :
            IF ~m.ok THEN m
            ELSE Then(IF f.size_hint_seek_dirty # NoSeek
                      THEN ResourceSeek(m.f.file, f.size_hint_seek_dirty)
                      ELSE R(m.f.file, TRUE, 0),
                      LAMBDA s :
                         IF ~s.ok THEN R([m.f EXCEPT !.file = s.f], FALSE, s.v)
                         ELSE Then(ResourceRead(s.f, n),
                                   LAMBDA r : R([m.f EXCEPT !.file = r.f], r.ok, r.v))))

\* LazyOpen::seek without the size-hint shortcut
LazyOpenSeek_nohint(f, pos) ==
    Then(file_mut(f),
         LAMBDA m :
            IF ~m.ok THEN m
            ELSE Then(ResourceSeek(m.f.file, pos),
                      LAMBDA r : R([m.f EXCEPT !.file = r.f], r.ok, r.v)))

LazyOpenSeek(f, pos) ==
    IF f.size_hint # -1 /\ pos = End(0)
    THEN R([f EXCEPT !.size_hint_seek_dirty = pos], TRUE, f.size_hint)
    ELSE Then(file_mut(f),
              LAMBDA m :
                 IF ~m.ok THEN m
                 ELSE Then(ResourceSeek(m.f.file, pos),
                           LAMBDA r : R([m.f EXCEPT !.file = r.f], r.ok, r.v)))

\* ------------------------------------------------------------------------
\* ioutil/concat.rs
\* ------------------------------------------------------------------------
\* io::Read / io::Seek of the sources T of a Concat<T>: io::Cursor (tests),
\* or Box<ReadSeek> holding an io::Cursor or a LazyOpen (mapping.rs).
read(f, n) ==
    IF f.kind = "lazy" THEN LazyOpenRead(f, n) ELSE CursorRead(f, n)

seek(f, pos) ==
    IF f.kind = "lazy" THEN LazyOpenSeek(f, pos) ELSE CursorSeek(f, pos)

Concat(files) ==
    [kind |-> "concat", files |-> files, chunk_index |-> 0, offset |-> 0,
     ranges |-> <<>>]

\* Variant: the next range begins where the last one begins.
current_end_start(c) == IF c.ranges = <<>> THEN 0 ELSE c.ranges[Len(c.ranges)].start

current_end(c) == IF c.ranges = <<>> THEN 0 ELSE c.ranges[Len(c.ranges)].end

RECURSIVE index_up_to(_, _)
index_up_to(c, new_offset) ==
    IF new_offset < current_end(c) THEN R(c, TRUE, 0)
    ELSE IF Len(c.ranges) >= Len(c.files) THEN R(c, TRUE, 0)
    ELSE Then(seek(c.files[Len(c.ranges) + 1], End(0)),
              LAMBDA s :
                 IF ~s.ok THEN R([c EXCEPT !.files[Len(c.ranges) + 1] = s.f], FALSE, s.v)
                 ELSE index_up_to(
                        [c EXCEPT !.files[Len(c.ranges) + 1] = s.f,
                                  !.ranges = Append(@, [start |-> current_end(c),
                                                        end |-> current_end(c) + s.v])],
                        new_offset))

\* The loop of Concat::read: `want` is what is left of the buffer, `out` the
\* bytes placed in it so far.  chunk_index counts from 0 as in the code.
RECURSIVE ConcatReadLoop(_, _, _, _)
ConcatReadLoop(c, want, out, next_chunk) ==
    IF ~(want > 0 /\ c.chunk_index < Len(c.files)) THEN R(c, TRUE, out)
    ELSE Then(IF next_chunk THEN seek(c.files[c.chunk_index + 1], Start(0))
              ELSE R(c.files[c.chunk_index + 1], TRUE, 0),
              LAMBDA s :
                 IF ~s.ok THEN R([c EXCEPT !.files[c.chunk_index + 1] = s.f], FALSE, s.v)
                 ELSE Then(read(s.f, want),
                           LAMBDA r :
                              IF ~r.ok
                              THEN R([c EXCEPT !.files[c.chunk_index + 1] = r.f], FALSE, r.v)
                              ELSE IF Len(r.v) = 0
                              THEN ConcatReadLoop(
                                      [c EXCEPT !.files[c.chunk_index + 1] = r.f,
                                                !.chunk_index = @ + 1],
                                      want, out, TRUE)
                              ELSE ConcatReadLoop(
                                      [c EXCEPT !.files[c.chunk_index + 1] = r.f,
                                                !.offset = @ + Len(r.v)],
                                      want - Len(r.v), out \o r.v, FALSE)))

\* Variant: next_chunk starts out true, every read rewinds the current source.
ConcatRead_rewind(c, n) == ConcatReadLoop(c, n, <<>>, TRUE)

ConcatRead(c, n) == ConcatReadLoop(c, n, <<>>, FALSE)

\* ranges.binary_search_by(..).unwrap_or_else(|_| ranges.len() - 1), counted
\* from 0.  The ranges are sorted and disjoint, so at most one of them
\* compares Equal.
RangeIndex(ranges, offset) ==
    LET hit == {i \in 1..Len(ranges) : ranges[i].start <= offset /\ offset < ranges[i].end}
    IN IF hit = {} THEN Len(ranges) - 1 ELSE (CHOOSE i \in hit : TRUE) - 1

\* Variant: the source is seeked to the absolute offset, not to the offset
\* relative to the start of its range.
ConcatSeekTo_absolute(c, new_offset) ==
    Then(RangeIndex(c.ranges, new_offset),
         LAMBDA ci :
            Then(seek(c.files[ci + 1], Start(new_offset)),
                 LAMBDA s :
                    R([c EXCEPT !.offset = new_offset, !.chunk_index = ci,
                                !.files[ci + 1] = s.f],
                      s.ok, IF s.ok THEN new_offset ELSE s.v)))

\* Variant: an offset past the end of the last range is refused.
ConcatSeekTo_strict(c, new_offset) ==
    IF new_offset > current_end(c)
    THEN R(c, FALSE, "seek position beyond the end")
    ELSE Then(RangeIndex(c.ranges, new_offset),
         LAMBDA ci :
            Then(seek(c.files[ci + 1], Start(new_offset - c.ranges[ci + 1].start)),
                 LAMBDA s :
                    R([c EXCEPT !.offset = new_offset, !.chunk_index = ci,
                                !.files[ci + 1] = s.f],
                      s.ok, IF s.ok THEN new_offset ELSE s.v)))

\* The part of Concat::seek after new_offset is known (lines 138-155).
ConcatSeekTo(c, new_offset) ==
    Then(RangeIndex(c.ranges, new_offset),
         LAMBDA ci :
            Then(seek(c.files[ci + 1], Start(new_offset - c.ranges[ci + 1].start)),
                 LAMBDA s :
                    R([c EXCEPT !.offset = new_offset, !.chunk_index = ci,
                                !.files[ci + 1] = s.f],
                      s.ok, IF s.ok THEN new_offset ELSE s.v)))

\* Variant: an End offset before the start is clamped to the start.
ConcatSeekEnd_clamp(c, offset) ==
    ConcatSeekTo(c, Max(0, current_end(c) + offset))

\* SeekFrom::End once every source is indexed (lines 123-134).
ConcatSeekEnd(c, offset) ==
    IF current_end(c) + offset < 0
    THEN R(c, FALSE, "seek position resolves to negative")
    ELSE ConcatSeekTo(c, current_end(c) + offset)

ConcatSeek(c, pos) ==
    IF pos.whence = "Current" /\ c.offset + pos.off < 0
    THEN R(c, FALSE, "seek position resolves to negative")
    ELSE Then(index_up_to(c, IF pos.whence = "Start" THEN pos.off
                             ELSE IF pos.whence = "Current" THEN c.offset + pos.off
                             ELSE U64_MAX),
              LAMBDA x :
                 IF ~x.ok THEN x
                 ELSE IF pos.whence = "Start" THEN ConcatSeekTo(x.f, pos.off)
                 ELSE IF pos.whence = "Current" THEN ConcatSeekTo(x.f, c.offset + pos.off)
                 ELSE ConcatSeekEnd(x.f, pos.off))

IsPrefix(a, b) == Len(a) <= Len(b) /\ a = SubSeq(b, 1, Len(a))

\* ------------------------------------------------------------------------
\* Variables a specification does not use stay at "idle".
\* ------------------------------------------------------------------------
ConcatIdle ==
    /\ cc = "idle" /\ ccData = "idle" /\ ccOut = "idle"
    /\ ccFresh = "idle" /\ ccSeek = "idle" /\ ccLast = "idle"
TrackIdle == tr = "idle" /\ trLast = "idle"
DirCacheIdle ==
    /\ dc = "idle" /\ dcCalls = "idle" /\ dcLast = "idle"
    /\ dcFirst = "idle" /\ dcListing = "idle"
LazyIdle == lz = "idle" /\ lzRef = "idle" /\ lzLast = "idle"

IoIdle ==
    /\ rs = "idle" /\ rsLog = "idle"
    /\ st = "idle" /\ stRef = "idle" /\ stLast = "idle"
FSIdle ==
    /\ nodes = "idle" /\ read_handles = "idle" /\ next_read_handle = "idle"
    /\ readdir_handles = "idle" /\ next_readdir_handle = "idle"
    /\ reply = "idle" /\ produced = "idle" /\ hasher = "idle"
    /\ hist = "idle"

\* ========================================================================
\* Concat over plain sources: a byte sequence 1, 2, .., L cut into
\* io::Cursor sources of arbitrary sizes (concat.rs, tests).
\* ========================================================================
RECURSIVE Sum(_)
Sum(sizes) == IF sizes = <<>> THEN 0 ELSE sizes[1] + Sum(Tail(sizes))

Bytes(from, n) == [i \in 1..n |-> from + i]

\* The sources of a partition with the given chunk sizes.
Chunks(sizes) ==
    [i \in 1..Len(sizes) |-> Cursor(Bytes(Sum(SubSeq(sizes, 1, i - 1)), sizes[i]))]

InitConcat ==
    /\ \E n \in 1..MaxFiles : \E sizes \in [1..n -> 0..MaxChunk] :
          /\ cc = Concat(Chunks(sizes))
          /\ ccData = Bytes(0, Sum(sizes))
    /\ ccOut = <<>>
    /\ ccFresh = TRUE
    /\ ccSeek = [pos |-> Start(0), ok |-> TRUE, ret |-> 0, back |-> FALSE]
    /\ ccLast = [op |-> "new", ok |-> TRUE, short |-> FALSE, eof |-> FALSE]
    /\ TrackIdle /\ DirCacheIdle /\ FSIdle /\ LazyIdle /\ IoIdle

\* concat.read(&mut buf) with buf.len() = n
CRead(n) ==
    LET r == ConcatRead(cc, n)
    IN /\ cc' = r.f
       /\ ccOut' = IF r.ok THEN ccOut \o r.v ELSE ccOut
       /\ ccLast' = [op |-> "read", ok |-> r.ok,
                     short |-> r.ok /\ Len(r.v) < n,
                     eof |-> r.ok /\ n > 0 /\ Len(r.v) = 0]
       /\ UNCHANGED <<ccData, ccFresh, ccSeek, trVars, dcVars, fsVars, lzVars, ioVars>>

\* concat.seek(pos)
CSeek(pos) ==
    LET r == ConcatSeek(cc, pos)
    IN /\ cc' = r.f
       /\ ccOut' = <<>>
       /\ ccFresh' = FALSE
       /\ ccSeek' = [pos |-> pos, ok |-> r.ok, ret |-> IF r.ok THEN r.v ELSE -1,
                     back |-> r.ok /\ cc.chunk_index > r.f.chunk_index]
       /\ ccLast' = [op |-> "seek", ok |-> r.ok, short |-> FALSE, eof |-> FALSE]
       /\ UNCHANGED <<ccData, trVars, dcVars, fsVars, lzVars, ioVars>>

\* The seek positions tried: every Start offset up to MaxBeyond past the
\* end, End and Current offsets that resolve before the start, inside, at
\* the end and past the end.
SeekPositions(len, offset) ==
    {Start(k) : k \in 0..(len + MaxBeyond)}
    \cup {End(d) : d \in {0 - len - 1, 0 - len, -1} \cup 0..MaxBeyond}
    \cup {Current(d) : d \in {d \in {-1, 0, 1} : offset + d <= len + MaxBeyond}}

NextConcat ==
    \/ \E n \in 0..MaxBuf : CRead(n)
    \/ \E pos \in SeekPositions(Len(ccData), cc.offset) : CSeek(pos)

SpecConcat == InitConcat /\ [][NextConcat]_vars

\* C2: reading a fresh Concat (no seek so far) with any buffer sizes never
\* fails, delivers the original byte sequence in order, and once a read
\* into a non-empty buffer returns 0 the whole sequence has been delivered;
\* reads at the end return 0.
C2_ReadReproducesSequence ==
    ccFresh =>
        /\ ccLast.ok
        /\ IsPrefix(ccOut, ccData)
        /\ ccLast.eof => ccOut = ccData
        /\ ccLast.short => ccOut = ccData

C2_Witness ==
    /\ ccFresh /\ ccLast.eof
    /\ ccOut = ccData /\ Len(ccData) >= 2
    /\ Len(cc.files) >= 2
    /\ \E i \in 1..Len(cc.files) : Len(cc.files[i].data) = 0

\* C3: after seek(Start(k)) with 0 <= k <= total, whatever came before, the
\* seek returned k and the reads since then deliver the bytes k..total.
C3_SeekStartThenRead ==
    (~ccFresh /\ ccSeek.pos.whence = "Start" /\ ccSeek.pos.off <= Len(ccData)) =>
        LET k == ccSeek.pos.off
            rest == SubSeq(ccData, k + 1, Len(ccData))
        IN /\ ccSeek.ok /\ ccSeek.ret = k
           /\ ccLast.ok
           /\ IsPrefix(ccOut, rest)
           /\ ccLast.short => ccOut = rest

\* A backward seek across a source boundary, after reads, followed by reads
\* up to the end.
C3_Witness ==
    /\ ~ccFresh /\ ccSeek.pos.whence = "Start" /\ ccSeek.ok
    /\ ccSeek.pos.off > 0 /\ ccSeek.back
    /\ ccLast.short
    /\ Len(ccOut) >= 2
    /\ ccOut = SubSeq(ccData, ccSeek.pos.off + 1, Len(ccData))

C20_SeekBeyondLength ==
    [][/\ ccLast'.op = "seek" =>
            LET t == IF ccSeek'.pos.whence = "Start" THEN ccSeek'.pos.off
                     ELSE IF ccSeek'.pos.whence = "Current" THEN cc.offset + ccSeek'.pos.off
                     ELSE Len(ccData) + ccSeek'.pos.off
            IN t > Len(ccData) => (ccSeek'.ok /\ ccSeek'.ret = t /\ cc'.offset = t)
       /\ (/\ ccLast'.op = "read" /\ ccLast.op = "seek"
           /\ ccSeek.ok /\ ccSeek.ret > Len(ccData))
            => (ccLast'.ok /\ ccOut' = <<>> /\ cc'.offset = cc.offset)]_vars

\* the read after seek(End(+n)), n > 0, on several non-empty sources
C20_Witness ==
    /\ ccLast.op = "read" /\ ccLast.ok /\ ccLast.eof /\ ccOut = <<>>
    /\ ~ccFresh /\ ccSeek.ok /\ ccSeek.pos.whence = "End" /\ ccSeek.pos.off > 0
    /\ cc.offset = Len(ccData) + ccSeek.pos.off
    /\ Len(ccData) >= 2 /\ Len(cc.files) >= 2

\* C30: a read, or a Start/Current seek, whose touched offsets all lie
\* inside the first i sources leaves every source after the i-th as it was
\* (no read, no seek) and measures none of them; a seek relative to the end
\* measures every source.
C30_IndexedOnlyAsFarAsNeeded ==
    [][LET n == Len(cc.files)
           endOf(i) == Sum([j \in 1..i |-> Len(cc.files[j].data)])
           untouched(i) ==
               /\ \A j \in (i + 1)..n : cc'.files[j] = cc.files[j]
               /\ Len(cc'.ranges) <= Max(Len(cc.ranges), i)
           t == IF ccSeek'.pos.whence = "Start" THEN ccSeek'.pos.off
                ELSE cc.offset + ccSeek'.pos.off
       IN /\ (ccLast'.op = "read" /\ ccLast'.ok /\ ~ccLast'.short
                /\ cc'.offset > cc.offset)
              => \A i \in 1..n : cc'.offset - 1 < endOf(i) => untouched(i)
          /\ (ccLast'.op = "seek" /\ ccSeek'.pos.whence # "End" /\ t >= 0)
              => \A i \in 1..n : t < endOf(i) => untouched(i)
          /\ (ccLast'.op = "seek" /\ ccSeek'.pos.whence = "End")
              => Len(cc'.ranges) = n]_vars

\* ========================================================================
\* The reader of a track file: TrackAudio::open_ro (mapping.rs) driven by
\* FS::read (filesystem/mod.rs).
\* ========================================================================
\* id3_tag()
TagData == [i \in 1..TagLen |-> 10 + i]

\* mp3::cbr_header(mp3_total_size): one frame
HeaderData == [i \in 1..FrameLen |-> 20 + i]

\* mp3::zero_headers(count): count frames, each a frame sync followed by
\* zero bytes
ZeroHeaders(count) ==
    [i \in 1..(count * FrameLen) |-> IF i % FrameLen = 1 \/ FrameLen = 1 THEN 255 ELSE 0]

\* The remote MP3: its own first frame, then the audio.  Its length is such
\* that what is left after skipping the first frame has the hinted size.
RemoteData == [i \in 1..(FrameLen + AudioSize) |-> IF i <= FrameLen THEN 30 + i ELSE 100 + i - FrameLen]

AudioData == SubSeq(RemoteData, FrameLen + 1, Len(RemoteData))

\* The logical concatenation the reader stands for.
TrackBytes ==
    TagData \o HeaderData \o ZeroHeaders(PaddingStart) \o AudioData \o ZeroHeaders(PaddingEnd)

AudioStart == TagLen + FrameLen + PaddingStart * FrameLen

open_ro(open_ok) ==
    Concat(<<Cursor(TagData),
             Cursor(HeaderData),
             Cursor(ZeroHeaders(PaddingStart)),
             LazyOpen(AudioSize, Skip(RangeSeeker(RemoteData), FrameLen), open_ok),
             Cursor(ZeroHeaders(PaddingEnd))>>)

\* The audio source of the reader and the requests made for it so far.
Audio(c) == c.files[4]
Requests(c) == IF Audio(c).state = "Opened" THEN Audio(c).file.inner.num_requests ELSE 0

InitTrack ==
    /\ \E open_ok \in BOOLEAN : tr = open_ro(open_ok)
    /\ trLast = [op |-> "open", k |-> 0, size |-> 0, ok |-> TRUE, data |-> <<>>]
    /\ ConcatIdle /\ DirCacheIdle /\ FSIdle /\ LazyIdle /\ IoIdle

\* FS::read(offset = k, size): seek(Start(k)), then one read into a buffer
\* of `size` bytes; an error of either is replied as EIO.
TrackReadAt(k, size) ==
    /\ Then(ConcatSeek(tr, Start(k)),
            LAMBDA s :
               IF ~s.ok
               THEN /\ tr' = s.f
                    /\ trLast' = [op |-> "read_at", k |-> k, size |-> size,
                                  ok |-> FALSE, data |-> <<>>]
               ELSE Then(ConcatRead(s.f, size),
                         LAMBDA r :
                            /\ tr' = r.f
                            /\ trLast' = [op |-> "read_at", k |-> k, size |-> size,
                                          ok |-> r.ok,
                                          data |-> IF r.ok THEN r.v ELSE <<>>]))
    /\ Requests(tr') <= MaxRequests
    /\ UNCHANGED <<ccVars, dcVars, fsVars, lzVars, ioVars>>

\* reader.seek(pos) on its own, as a size probe seek(End(0)) does
TrackSeek(pos) ==
    /\ Then(ConcatSeek(tr, pos),
            LAMBDA s :
               /\ tr' = s.f
               /\ trLast' = [op |-> "seek", k |-> IF s.ok THEN s.v ELSE -1, size |-> 0,
                             ok |-> s.ok, data |-> <<>>])
    /\ Requests(tr') <= MaxRequests
    /\ UNCHANGED <<ccVars, dcVars, fsVars, lzVars, ioVars>>

\* reader.read(buf) at the current position
TrackRead(size) ==
    /\ Then(ConcatRead(tr, size),
            LAMBDA r :
               /\ tr' = r.f
               /\ trLast' = [op |-> "read", k |-> tr.offset, size |-> size,
                             ok |-> r.ok, data |-> IF r.ok THEN r.v ELSE <<>>])
    /\ Requests(tr') <= MaxRequests
    /\ UNCHANGED <<ccVars, dcVars, fsVars, lzVars, ioVars>>

NextTrack ==
    \/ \E k \in 0..Len(TrackBytes), size \in 1..MaxBuf : TrackReadAt(k, size)
    \/ TrackSeek(End(0))
    \/ \E size \in 1..MaxBuf : TrackRead(size)

SpecTrack == InitTrack /\ [][NextTrack]_vars

\* C1: every seek(Start(k)) followed by read(size) on the reader of a track
\* file returns exactly the min(size, total - k) bytes of the logical
\* concatenation that start at k, after any history, provided the audio can
\* be opened and its real length equals the size hint (RemoteData is built
\* that way).
C1_ReadAtReturnsLogicalBytes ==
    (trLast.op = "read_at" /\ Audio(tr).open_ok) =>
        /\ trLast.ok
        /\ trLast.data = SubSeq(TrackBytes, trLast.k + 1,
                                Min(trLast.k + trLast.size, Len(TrackBytes)))


\* ========================================================================
\* Nodes and the memoizing directory cache (node.rs, nodecache.rs).
\* A node is a file or a symlink of the backend ([type, of]) or a directory
\* ([type, dir]) that is either a backend directory Dir(id) (before
\* map_node) or a DirCache.
\* ========================================================================
\* libc errno values used by the code
ENOENT == 2
EIO == 5

\* names a directory is asked about
Names == {"a", "b"}
\* longest listing the inner directory answers with
MaxListing == 2

Dir(id) == [id |-> id]
NodeFile(f) == [type |-> "File", of |-> f]
NodeDirectory(d) == [type |-> "Directory", dir |-> d]
NodeSymlink(l) == [type |-> "Symlink", of |-> l]

None == [some |-> FALSE, files |-> <<>>]
Some(files) == [some |-> TRUE, files |-> files]

\* DirCache::new
DirCache(inner) ==
    [inner |-> inner,
     cached_files |-> None,
     hidden_cached_files |-> [n \in {} |-> NodeFile(0)],
     non_files |-> {}]

\* map_node: a directory of the backend is wrapped in a fresh DirCache
map_node(node) ==
    IF node.type = "Directory" THEN NodeDirectory(DirCache(node.dir)) ELSE node

\* .map(|(name, node)| (name, map_node(node)))
map_files(files) ==
    [i \in 1..Len(files) |-> [name |-> files[i].name, node |-> map_node(files[i].node)]]

\* Results of the inner directory and of the DirCache
FilesOk(files) == [ok |-> TRUE, files |-> files, errno |-> 0]
FilesErr(errno) == [ok |-> FALSE, files |-> <<>>, errno |-> errno]
NodeOk(node) == [ok |-> TRUE, node |-> node, errno |-> 0]
NodeErr(errno) == [ok |-> FALSE, node |-> NodeFile(0), errno |-> errno]

\* what a DirCache call amounts to: the cache after it, whether the inner
\* directory was called, and the Result
D(d, called, res) == [d |-> d, called |-> called, res |-> res]

\* DirCache::files without the store: *cached = Some(files.clone()) dropped
DirCacheFiles_nostore(d, ans) ==
    IF d.cached_files.some THEN D(d, FALSE, FilesOk(d.cached_files.files))
    ELSE IF ~ans.ok THEN D(d, TRUE, FilesErr(ans.errno))
    ELSE D(d, TRUE, FilesOk(map_files(ans.files)))

\* DirCache::files; ans is what inner.files() answers if it is called
DirCacheFiles(d, ans) ==
    IF d.cached_files.some THEN D(d, FALSE, FilesOk(d.cached_files.files))
    ELSE IF ~ans.ok THEN D(d, TRUE, FilesErr(ans.errno))
    ELSE D([d EXCEPT !.cached_files = Some(map_files(ans.files))], TRUE,
           FilesOk(map_files(ans.files)))

\* cached.iter().find(|(n, _)| n == name): index of the first entry, or 0
find(files, name) ==
    LET hits == {i \in 1..Len(files) : files[i].name = name}
    IN IF hits = {} THEN 0 ELSE CHOOSE i \in hits : \A j \in hits : i <= j

\* DirCache::file_by_name that forgets successful answers
DirCacheFileByName_nomemo(d, name, ans) ==
    IF name \in d.non_files THEN D(d, FALSE, NodeErr(ENOENT))
    ELSE IF name \in DOMAIN d.hidden_cached_files
    THEN D(d, FALSE, NodeOk(d.hidden_cached_files[name]))
    ELSE IF d.cached_files.some /\ find(d.cached_files.files, name) # 0
    THEN D(d, FALSE,
           NodeOk(d.cached_files.files[find(d.cached_files.files, name)].node))
    ELSE IF ans.ok
    THEN D(d, TRUE, NodeOk(map_node(ans.node)))
    ELSE IF ans.errno = ENOENT
    THEN D([d EXCEPT !.non_files = @ \cup {name}], TRUE, NodeErr(ans.errno))
    ELSE D(d, TRUE, NodeErr(ans.errno))

\* DirCache::file_by_name that remembers every error as "absent"
DirCacheFileByName_allerrors(d, name, ans) ==
    IF name \in d.non_files THEN D(d, FALSE, NodeErr(ENOENT))
    ELSE IF name \in DOMAIN d.hidden_cached_files
    THEN D(d, FALSE, NodeOk(d.hidden_cached_files[name]))
    ELSE IF d.cached_files.some /\ find(d.cached_files.files, name) # 0
    THEN D(d, FALSE,
           NodeOk(d.cached_files.files[find(d.cached_files.files, name)].node))
    ELSE IF ans.ok
    THEN D([d EXCEPT !.hidden_cached_files = (name :> map_node(ans.node)) @@ @],
           TRUE, NodeOk(map_node(ans.node)))
    ELSE D([d EXCEPT !.non_files = @ \cup {name}], TRUE, NodeErr(ans.errno))

\* DirCache::file_by_name; ans is what inner.file_by_name(name) answers if
\* it is called
DirCacheFileByName(d, name, ans) ==
    IF name \in d.non_files THEN D(d, FALSE, NodeErr(ENOENT))
    ELSE IF name \in DOMAIN d.hidden_cached_files
    THEN D(d, FALSE, NodeOk(d.hidden_cached_files[name]))
    ELSE IF d.cached_files.some /\ find(d.cached_files.files, name) # 0
    THEN D(d, FALSE,
           NodeOk(d.cached_files.files[find(d.cached_files.files, name)].node))
    ELSE IF ans.ok
    THEN D([d EXCEPT !.hidden_cached_files = (name :> map_node(ans.node)) @@ @],
           TRUE, NodeOk(map_node(ans.node)))
    ELSE IF ans.errno = ENOENT
    THEN D([d EXCEPT !.non_files = @ \cup {name}], TRUE, NodeErr(ans.errno))
    ELSE D(d, TRUE, NodeErr(ans.errno))

\* ------------------------------------------------------------------------
\* One DirCache over a backend directory whose answers are not under the
\* cache's control: each call of the inner directory may answer with any
\* listing, any node, NotFound or a transient error.
\* ------------------------------------------------------------------------
InnerNodes == {NodeFile(1), NodeDirectory(Dir(2))}
Entries == [name : Names, node : InnerNodes]
Listings == UNION {[1..n -> Entries] : n \in 0..MaxListing}
FilesAnswers == {FilesOk(l) : l \in Listings} \cup {FilesErr(EIO)}
NodeAnswers == {NodeOk(n) : n \in InnerNodes} \cup {NodeErr(ENOENT), NodeErr(EIO)}

\* the names of a listing, in order
names(files) == [i \in 1..Len(files) |-> files[i].name]

InitDirCache ==
    /\ dc = DirCache(Dir(0))
    /\ dcCalls = [files_ok |-> 0, by_name |-> [n \in Names |-> 0]]
    /\ dcLast = [op |-> "new", name |-> "", called |-> FALSE, before |-> DirCache(Dir(0)),
                 ans |-> NodeErr(0), stale |-> FALSE, res |-> NodeErr(0),
                 retry |-> FALSE]
    /\ dcFirst = [n \in {} |-> NodeErr(0)]
    /\ dcListing = None
    /\ ConcatIdle /\ TrackIdle /\ FSIdle /\ LazyIdle /\ IoIdle

\* a caller lists the directory
DCFiles(ans) ==
    LET r == DirCacheFiles(dc, ans)
    IN /\ dc' = r.d
       /\ dcCalls' = [dcCalls EXCEPT
                        !.files_ok = @ + (IF r.called /\ ans.ok THEN 1 ELSE 0)]
       /\ dcLast' = [op |-> "files", name |-> "", called |-> r.called,
                     before |-> dc,
                     ans |-> IF r.called THEN ans ELSE FilesErr(0),
                     stale |-> /\ ~r.called
                               /\ (ans.ok => names(ans.files) # names(r.res.files)),
                     res |-> r.res, retry |-> FALSE]
       /\ dcListing' = IF ~dcListing.some /\ r.res.ok
                       THEN Some(r.res.files) ELSE dcListing
       /\ UNCHANGED dcFirst
       /\ UNCHANGED <<ccVars, trVars, fsVars, lzVars, ioVars>>

\* a caller asks for one child
DCFileByName(name, ans) ==
    LET r == DirCacheFileByName(dc, name, ans)
        definitive == r.res.ok \/ r.res.errno = ENOENT
    IN /\ dc' = r.d
       /\ dcCalls' = [dcCalls EXCEPT
                        !.by_name[name] = @ + (IF r.called /\ (ans.ok \/ ans.errno = ENOENT)
                                               THEN 1 ELSE 0)]
       /\ dcLast' = [op |-> "file_by_name", name |-> name, called |-> r.called,
                     before |-> dc,
                     ans |-> IF r.called THEN ans ELSE NodeErr(0),
                     stale |-> ~r.called /\ r.res # (IF ans.ok THEN NodeOk(map_node(ans.node)) ELSE ans),
                     res |-> r.res,
                     retry |-> /\ dcLast.op = "file_by_name" /\ dcLast.name = name
                               /\ dcLast.called /\ ~dcLast.res.ok
                               /\ dcLast.res.errno # ENOENT]
       /\ dcFirst' = IF definitive /\ name \notin DOMAIN dcFirst
                     THEN (name :> r.res) @@ dcFirst ELSE dcFirst
       /\ UNCHANGED dcListing
       /\ UNCHANGED <<ccVars, trVars, fsVars, lzVars, ioVars>>

NextDirCache ==
    \/ \E ans \in FilesAnswers : DCFiles(ans)
    \/ \E name \in Names, ans \in NodeAnswers : DCFileByName(name, ans)

SpecDirCache == InitDirCache /\ [][NextDirCache]_vars

\* C4: on one DirCache the inner file_by_name answers success or NotFound at
\* most once per name, is not called at all for a name of an already stored
\* listing, and every file_by_name(name) after the first node/NotFound
\* outcome returns that same outcome.
C4_FileByNameMemoized ==
    /\ \A n \in Names : dcCalls.by_name[n] <= 1
    /\ dcLast.op = "file_by_name" =>
        /\ (/\ dcLast.before.cached_files.some
            /\ find(dcLast.before.cached_files.files, dcLast.name) # 0)
               => ~dcLast.called
        /\ dcLast.name \in DOMAIN dcFirst => dcLast.res = dcFirst[dcLast.name]

\* a repeated call answered from the memo although the inner directory
\* would now answer something else
C4_Witness ==
    /\ dcLast.op = "file_by_name" /\ ~dcLast.called
    /\ dcCalls.by_name[dcLast.name] = 1
    /\ dcLast.res.ok /\ dcLast.res.node.type = "Directory"
    /\ dcLast.res = dcFirst[dcLast.name]
    /\ dcLast.stale

\* C5: the inner files() succeeds at most once; once a listing is stored
\* every files() returns it (same names, same order) without calling the
\* inner directory, whatever the inner directory would answer now; a failed
\* files() stores nothing.
C5_FilesListedOnce ==
    /\ dcCalls.files_ok <= 1
    /\ dcLast.op = "files" =>
        /\ (dcLast.called /\ dcLast.res.ok) =>
               names(dcLast.res.files) = names(dcLast.ans.files)
        /\ dcLast.before.cached_files.some =>
               /\ ~dcLast.called
               /\ dcLast.res.ok
               /\ dcLast.res.files = dcListing.files
        /\ ~dcLast.res.ok => (dc = dcLast.before /\ ~dc.cached_files.some)

\* a second files() returns the stored two-entry listing while the inner
\* directory would now list other names
C5_Witness ==
    /\ dcLast.op = "files" /\ ~dcLast.called /\ dcCalls.files_ok = 1
    /\ Len(dcLast.res.files) = 2
    /\ dcLast.res.files = dcListing.files
    /\ dcLast.stale

\* C6: when the inner file_by_name fails with an error other than NotFound
\* the DirCache is left as it was, the error is returned, and the next
\* file_by_name of that name calls the inner directory again and returns
\* the node it then answers.
C6_TransientErrorNotCached ==
    (/\ dcLast.op = "file_by_name" /\ dcLast.called
     /\ ~dcLast.ans.ok /\ dcLast.ans.errno # ENOENT) =>
        /\ dc = dcLast.before
        /\ dcLast.res = NodeErr(dcLast.ans.errno)
        /\ \A n \in InnerNodes :
             LET r == DirCacheFileByName(dc, dcLast.name, NodeOk(n))
             IN r.called /\ r.res = NodeOk(map_node(n))

\* the call right after a transient failure reaches the inner directory and
\* succeeds
C6_Witness ==
    /\ dcLast.op = "file_by_name" /\ dcLast.retry
    /\ dcLast.called /\ dcLast.res.ok
    /\ dcLast.name \in DOMAIN dc.hidden_cached_files

\* ========================================================================
\* The FUSE responder (filesystem/mod.rs) over a cached node tree.
\* ========================================================================
EROFS == 30
EBADF == 9
INO_ROOT == 1

\* inode numbers range over 1..MaxIno
MaxIno == 3
\* handle ids issued per table while every request is tried
MaxHandles == 1
\* length of a file of the tree
FileLen == 2

InoSpace == 1..MaxIno

\* The node tree behind the cache: directory 0 is the root.
Tree(dir) ==
    IF dir = Dir(0)
    THEN <<[name |-> "a", node |-> NodeDirectory(Dir(1))],
           [name |-> "b", node |-> NodeFile(1)]>>
    ELSE <<[name |-> "b", node |-> NodeSymlink(1)]>>

\* files() of a directory of the tree; up: the backend answers
InnerFiles(dir, up) == IF up THEN FilesOk(Tree(dir)) ELSE FilesErr(EIO)

\* Directory::file_by_name, the default implementation over files()
InnerFileByName(dir, name, up) ==
    IF ~up THEN NodeErr(EIO)
    ELSE IF find(Tree(dir), name) = 0 THEN NodeErr(ENOENT)
    ELSE NodeOk(Tree(dir)[find(Tree(dir), name)].node)

NameCode(name) == IF name = "a" THEN 0 ELSE 1

\* inode_for_child: a hash of (parent_ino, name).  The code relies on no
\* property of DefaultHasher beyond its being a function, so the model lets
\* it be any member of a family that is fixed for the mount.
inode_for_child(parent_ino, name) ==
    ((hasher + parent_ino * Cardinality(Names) + NameCode(name)) % MaxIno) + 1

\* HashMap::insert and HashMap::remove
insert(map, k, v) == [i \in DOMAIN map \cup {k} |-> IF i = k THEN v ELSE map[i]]
remove(map, k) == [i \in DOMAIN map \ {k} |-> map[i]]

\* open flags as the set of bits that are set
Flags == {"O_WRONLY", "O_APPEND", "O_CREAT", "O_EXCL", "O_TRUNC"}
WRITE_FLAGS == {"O_APPEND", "O_CREAT", "O_EXCL", "O_TRUNC"}
\* the flag words of the open requests: no flag, each single one, all
FlagWords == {{}} \cup {{f} : f \in Flags} \cup {Flags}

\* a request and the reply to it
Req(op, ino, name, fh, flags, offset, size) ==
    [op |-> op, ino |-> ino, name |-> name, fh |-> fh, flags |-> flags,
     offset |-> offset, size |-> size]
NoV == [errno |-> 0, ino |-> 0, kind |-> "", fh |-> 0, flags |-> {},
        data |-> <<>>, dir |-> <<>>]
Reply(req, tag, v) == [req |-> req, tag |-> tag, v |-> v]
\* .expect(..) on a node of the wrong type: the responder aborts
Abort(req) ==
    /\ reply' = Reply(req, "abort", NoV)
    /\ UNCHANGED <<nodes, read_handles, next_read_handle, readdir_handles,
                   next_readdir_handle, produced, hasher>>
Running == reply.tag # "abort"

NoProduced == [pn \in InoSpace \X Names |-> {}]
Produced == UNION {produced[pn] : pn \in InoSpace \X Names}

\* nothing seen yet: no id returned, none released, no enumeration begun
NoHist ==
    [opened |-> [fh \in {} |-> <<>>], released |-> {},
     dir_opened |-> [fh \in {} |-> <<>>], dir_released |-> {},
     walk |-> [fh |-> 0, next |-> 0, got |-> <<>>, calls |-> 0,
               done |-> FALSE, mixed |-> FALSE]]

\* FS::new
InitFS ==
    /\ nodes = (INO_ROOT :> NodeDirectory(DirCache(Dir(0))))
    /\ read_handles = [fh \in {} |-> 0]
    /\ next_read_handle = 1
    /\ readdir_handles = [fh \in {} |-> 0]
    /\ next_readdir_handle = 1
    /\ reply = Reply(Req("mount", 0, "", 0, {}, 0, 0), "ok", NoV)
    /\ produced = NoProduced
    /\ hasher \in 0..(MaxIno - 1)
    /\ hist = NoHist
    /\ ConcatIdle /\ TrackIdle /\ DirCacheIdle /\ LazyIdle /\ IoIdle

\* Variant: lookup storing the child before it asks for its attributes
LookupChild_insertfirst(req, r, attr_ok) ==
    IF ~r.res.ok
    THEN /\ reply' = Reply(req, "error", [NoV EXCEPT !.errno = r.res.errno])
         /\ nodes' = [nodes EXCEPT ![req.ino].dir = r.d]
         /\ UNCHANGED produced
    ELSE IF ~attr_ok
    THEN /\ reply' = Reply(req, "error", [NoV EXCEPT !.errno = EIO])
         /\ nodes' = insert([nodes EXCEPT ![req.ino].dir = r.d],
                            inode_for_child(req.ino, req.name), r.res.node)
         /\ UNCHANGED produced
    ELSE /\ reply' = Reply(req, "entry",
                           [NoV EXCEPT !.ino = inode_for_child(req.ino, req.name),
                                        !.kind = r.res.node.type])
         /\ nodes' = insert([nodes EXCEPT ![req.ino].dir = r.d],
                            inode_for_child(req.ino, req.name), r.res.node)
         /\ produced' = [produced EXCEPT ![<<req.ino, req.name>>] =
                            @ \cup {inode_for_child(req.ino, req.name)}]

\* the rest of FS::lookup once dir.file_by_name has returned r
LookupChild(req, r, attr_ok) ==
    IF ~r.res.ok
    THEN /\ reply' = Reply(req, "error", [NoV EXCEPT !.errno = r.res.errno])
         /\ nodes' = [nodes EXCEPT ![req.ino].dir = r.d]
         /\ UNCHANGED produced
    ELSE IF ~attr_ok
    THEN /\ reply' = Reply(req, "error", [NoV EXCEPT !.errno = EIO])
         /\ nodes' = [nodes EXCEPT ![req.ino].dir = r.d]
         /\ UNCHANGED produced
    ELSE /\ reply' = Reply(req, "entry",
                           [NoV EXCEPT !.ino = inode_for_child(req.ino, req.name),
                                        !.kind = r.res.node.type])
         /\ nodes' = insert([nodes EXCEPT ![req.ino].dir = r.d],
                            inode_for_child(req.ino, req.name), r.res.node)
         /\ produced' = [produced EXCEPT ![<<req.ino, req.name>>] =
                            @ \cup {inode_for_child(req.ino, req.name)}]

\* FS::lookup; up: the backend answers, attr_ok: attrs_for_file succeeds
Lookup(parent_ino, name, up, attr_ok) ==
    /\ Running
    /\ IF parent_ino \notin DOMAIN nodes
       THEN /\ reply' = Reply(Req("lookup", parent_ino, name, 0, {}, 0, 0), "error", [NoV EXCEPT !.errno = ENOENT])
            /\ UNCHANGED <<nodes, produced>>
       ELSE IF nodes[parent_ino].type # "Directory"
       THEN Abort(Req("lookup", parent_ino, name, 0, {}, 0, 0))
       ELSE LookupChild(Req("lookup", parent_ino, name, 0, {}, 0, 0),
                        DirCacheFileByName(nodes[parent_ino].dir, name,
                            InnerFileByName(nodes[parent_ino].dir.inner, name, up)),
                        attr_ok)
    /\ UNCHANGED <<read_handles, next_read_handle, readdir_handles,
                   next_readdir_handle, hasher>>
    /\ UNCHANGED <<ccVars, trVars, dcVars, lzVars, ioVars>>

\* getattr answering for inode numbers that are not in the table
Getattr_anyino(ino, attr_ok) ==
    /\ Running
    /\ reply' = Reply(Req("getattr", ino, "", 0, {}, 0, 0), "attr",
                      [NoV EXCEPT !.ino = ino, !.kind = "Directory"])
    /\ UNCHANGED <<nodes, read_handles, next_read_handle, readdir_handles,
                   next_readdir_handle, produced, hasher>>
    /\ UNCHANGED <<ccVars, trVars, dcVars, lzVars, ioVars>>

\* FS::getattr
Getattr(ino, attr_ok) ==
    /\ Running
    /\ reply' = IF ino \notin DOMAIN nodes
                THEN Reply(Req("getattr", ino, "", 0, {}, 0, 0), "error", [NoV EXCEPT !.errno = ENOENT])
                ELSE IF ~attr_ok
                THEN Reply(Req("getattr", ino, "", 0, {}, 0, 0), "error", [NoV EXCEPT !.errno = EIO])
                ELSE Reply(Req("getattr", ino, "", 0, {}, 0, 0), "attr",
                           [NoV EXCEPT !.ino = ino, !.kind = nodes[ino].type])
    /\ UNCHANGED <<nodes, read_handles, next_read_handle, readdir_handles,
                   next_readdir_handle, produced, hasher>>
    /\ UNCHANGED <<ccVars, trVars, dcVars, lzVars, ioVars>>

\* FS::readlink; link_ok: read_link succeeds
Readlink(ino, link_ok) ==
    /\ Running
    /\ IF ino \notin DOMAIN nodes
       THEN /\ reply' = Reply(Req("readlink", ino, "", 0, {}, 0, 0), "error", [NoV EXCEPT !.errno = ENOENT])
            /\ UNCHANGED <<nodes, read_handles, next_read_handle, readdir_handles,
                           next_readdir_handle, produced, hasher>>
       ELSE IF nodes[ino].type # "Symlink"
       THEN Abort(Req("readlink", ino, "", 0, {}, 0, 0))
       ELSE /\ reply' = IF link_ok
                        THEN Reply(Req("readlink", ino, "", 0, {}, 0, 0), "data",
                                   [NoV EXCEPT !.data = <<nodes[ino].of>>])
                        ELSE Reply(Req("readlink", ino, "", 0, {}, 0, 0), "error", [NoV EXCEPT !.errno = EIO])
            /\ UNCHANGED <<nodes, read_handles, next_read_handle, readdir_handles,
                           next_readdir_handle, produced, hasher>>
    /\ UNCHANGED <<ccVars, trVars, dcVars, lzVars, ioVars>>

\* the bytes of a file of the tree
FileData(f) == Bytes(10 * f, FileLen)

\* open looking the inode up before it looks at the flags
Open_inodefirst(ino, flags, open_ok) ==
    /\ Running
    /\ IF ino \notin DOMAIN nodes
       THEN /\ reply' = Reply(Req("open", ino, "", 0, flags, 0, 0), "error", [NoV EXCEPT !.errno = ENOENT])
            /\ UNCHANGED <<read_handles, next_read_handle>>
       ELSE IF flags \cap WRITE_FLAGS # {}
       THEN /\ reply' = Reply(Req("open", ino, "", 0, flags, 0, 0), "error", [NoV EXCEPT !.errno = EROFS])
            /\ UNCHANGED <<read_handles, next_read_handle>>
       ELSE IF nodes[ino].type # "File"
       THEN Abort(Req("open", ino, "", 0, flags, 0, 0))
       ELSE IF ~open_ok
       THEN /\ reply' = Reply(Req("open", ino, "", 0, flags, 0, 0), "error", [NoV EXCEPT !.errno = EIO])
            /\ UNCHANGED <<read_handles, next_read_handle>>
       ELSE /\ reply' = Reply(Req("open", ino, "", 0, flags, 0, 0), "opened",
                              [NoV EXCEPT !.fh = next_read_handle, !.flags = flags])
            /\ next_read_handle' = next_read_handle + 1
            /\ read_handles' = insert(read_handles, next_read_handle,
                                      Cursor(FileData(nodes[ino].of)))
    /\ UNCHANGED <<nodes, readdir_handles, next_readdir_handle, produced, hasher>>
    /\ UNCHANGED <<ccVars, trVars, dcVars, lzVars, ioVars>>

\* open handing out next_read_handle without advancing it
Open_samehandle(ino, flags, open_ok) ==
    /\ Running
    /\ IF flags \cap WRITE_FLAGS # {}
       THEN /\ reply' = Reply(Req("open", ino, "", 0, flags, 0, 0), "error", [NoV EXCEPT !.errno = EROFS])
            /\ UNCHANGED <<read_handles, next_read_handle>>
       ELSE IF ino \notin DOMAIN nodes
       THEN /\ reply' = Reply(Req("open", ino, "", 0, flags, 0, 0), "error", [NoV EXCEPT !.errno = ENOENT])
            /\ UNCHANGED <<read_handles, next_read_handle>>
       ELSE IF nodes[ino].type # "File"
       THEN Abort(Req("open", ino, "", 0, flags, 0, 0))
       ELSE IF ~open_ok
       THEN /\ reply' = Reply(Req("open", ino, "", 0, flags, 0, 0), "error", [NoV EXCEPT !.errno = EIO])
            /\ UNCHANGED <<read_handles, next_read_handle>>
       ELSE /\ reply' = Reply(Req("open", ino, "", 0, flags, 0, 0), "opened",
                              [NoV EXCEPT !.fh = next_read_handle, !.flags = flags])
            /\ next_read_handle' = next_read_handle
            /\ read_handles' = insert(read_handles, next_read_handle,
                                      Cursor(FileData(nodes[ino].of)))
    /\ UNCHANGED <<nodes, readdir_handles, next_readdir_handle, produced, hasher>>
    /\ UNCHANGED <<ccVars, trVars, dcVars, lzVars, ioVars>>

\* FS::open; open_ok: File::open_ro succeeds
Open(ino, flags, open_ok) ==
    /\ Running
    /\ IF flags \cap WRITE_FLAGS # {}
       THEN /\ reply' = Reply(Req("open", ino, "", 0, flags, 0, 0), "error", [NoV EXCEPT !.errno = EROFS])
            /\ UNCHANGED <<read_handles, next_read_handle>>
       ELSE IF ino \notin DOMAIN nodes
       THEN /\ reply' = Reply(Req("open", ino, "", 0, flags, 0, 0), "error", [NoV EXCEPT !.errno = ENOENT])
            /\ UNCHANGED <<read_handles, next_read_handle>>
       ELSE IF nodes[ino].type # "File"
       THEN Abort(Req("open", ino, "", 0, flags, 0, 0))
       ELSE IF ~open_ok
       THEN /\ reply' = Reply(Req("open", ino, "", 0, flags, 0, 0), "error", [NoV EXCEPT !.errno = EIO])
            /\ UNCHANGED <<read_handles, next_read_handle>>
       ELSE /\ reply' = Reply(Req("open", ino, "", 0, flags, 0, 0), "opened",
                              [NoV EXCEPT !.fh = next_read_handle, !.flags = flags])
            /\ next_read_handle' = next_read_handle + 1
            /\ read_handles' = insert(read_handles, next_read_handle,
                                      Cursor(FileData(nodes[ino].of)))
    /\ UNCHANGED <<nodes, readdir_handles, next_readdir_handle, produced, hasher>>
    /\ UNCHANGED <<ccVars, trVars, dcVars, lzVars, ioVars>>

\* the rest of FS::read once reader.seek(Start(offset)) has returned sk
ReadAfterSeek(req, sk) ==
    IF ~sk.ok
    THEN /\ reply' = Reply(req, "error", [NoV EXCEPT !.errno = EIO])
         /\ read_handles' = [read_handles EXCEPT ![req.fh] = sk.f]
    ELSE Then(read(sk.f, req.size), LAMBDA rd :
           /\ reply' = IF rd.ok THEN Reply(req, "data", [NoV EXCEPT !.data = rd.v])
                       ELSE Reply(req, "error", [NoV EXCEPT !.errno = EIO])
           /\ read_handles' = [read_handles EXCEPT ![req.fh] = rd.f])

\* FS::read (ino is only traced)
Read(fh, offset, size) ==
    /\ Running
    /\ IF fh \notin DOMAIN read_handles
       THEN /\ reply' = Reply(Req("read", 0, "", fh, {}, offset, size), "error", [NoV EXCEPT !.errno = EBADF])
            /\ UNCHANGED read_handles
       ELSE ReadAfterSeek(Req("read", 0, "", fh, {}, offset, size),
                          seek(read_handles[fh], Start(offset)))
    /\ UNCHANGED <<nodes, next_read_handle, readdir_handles, next_readdir_handle,
                   produced, hasher>>
    /\ UNCHANGED <<ccVars, trVars, dcVars, lzVars, ioVars>>

\* release leaving the reader in the table
Release_keep(fh) ==
    /\ Running
    /\ read_handles' = read_handles
    /\ reply' = Reply(Req("release", 0, "", fh, {}, 0, 0), "ok", NoV)
    /\ UNCHANGED <<nodes, next_read_handle, readdir_handles, next_readdir_handle,
                   produced, hasher>>
    /\ UNCHANGED <<ccVars, trVars, dcVars, lzVars, ioVars>>

\* FS::release (ino is only traced)
Release(fh) ==
    /\ Running
    /\ read_handles' = remove(read_handles, fh)
    /\ reply' = Reply(Req("release", 0, "", fh, {}, 0, 0), "ok", NoV)
    /\ UNCHANGED <<nodes, next_read_handle, readdir_handles, next_readdir_handle,
                   produced, hasher>>
    /\ UNCHANGED <<ccVars, trVars, dcVars, lzVars, ioVars>>

\* opendir numbering the children by their position in the listing
entries_counter(parent_ino, children) ==
    [i \in 1..Len(children) |->
        [name |-> children[i].name, node |-> children[i].node, ino |-> i]]

\* the entries of FS::opendir: every child with its inode number
entries(parent_ino, children) ==
    [i \in 1..Len(children) |->
        [name |-> children[i].name, node |-> children[i].node,
         ino |-> inode_for_child(parent_ino, children[i].name)]]

\* Variant: opendir entering every listed child into the inode table
OpendirChildren_register(req, r) ==
    IF ~r.res.ok
    THEN /\ reply' = Reply(req, "error", [NoV EXCEPT !.errno = EIO])
         /\ nodes' = [nodes EXCEPT ![req.ino].dir = r.d]
         /\ UNCHANGED <<readdir_handles, next_readdir_handle, produced>>
    ELSE /\ reply' = Reply(req, "opened",
                           [NoV EXCEPT !.fh = next_readdir_handle, !.flags = req.flags])
         /\ nodes' = [i \in DOMAIN nodes \cup
                              {inode_for_child(req.ino, r.res.files[k].name) :
                                   k \in 1..Len(r.res.files)} |->
                        IF \E k \in 1..Len(r.res.files) :
                               inode_for_child(req.ino, r.res.files[k].name) = i
                        THEN r.res.files[CHOOSE k \in 1..Len(r.res.files) :
                               inode_for_child(req.ino, r.res.files[k].name) = i].node
                        ELSE [nodes EXCEPT ![req.ino].dir = r.d][i]]
         /\ next_readdir_handle' = next_readdir_handle + 1
         /\ readdir_handles' = insert(readdir_handles, next_readdir_handle,
                                      entries(req.ino, r.res.files))
         /\ produced' = [pn \in InoSpace \X Names |->
                           IF pn[1] = req.ino /\ find(r.res.files, pn[2]) # 0
                           THEN produced[pn] \cup
                                {entries(req.ino, r.res.files)[find(r.res.files, pn[2])].ino}
                           ELSE produced[pn]]

\* the rest of FS::opendir once dir.files() has returned r
OpendirChildren(req, r) ==
    IF ~r.res.ok
    THEN /\ reply' = Reply(req, "error", [NoV EXCEPT !.errno = EIO])
         /\ nodes' = [nodes EXCEPT ![req.ino].dir = r.d]
         /\ UNCHANGED <<readdir_handles, next_readdir_handle, produced>>
    ELSE /\ reply' = Reply(req, "opened",
                           [NoV EXCEPT !.fh = next_readdir_handle, !.flags = req.flags])
         /\ nodes' = [nodes EXCEPT ![req.ino].dir = r.d]
         /\ next_readdir_handle' = next_readdir_handle + 1
         /\ readdir_handles' = insert(readdir_handles, next_readdir_handle,
                                      entries(req.ino, r.res.files))
         /\ produced' = [pn \in InoSpace \X Names |->
                           IF pn[1] = req.ino /\ find(r.res.files, pn[2]) # 0
                           THEN produced[pn] \cup
                                {entries(req.ino, r.res.files)[find(r.res.files, pn[2])].ino}
                           ELSE produced[pn]]

\* FS::opendir
Opendir(parent_ino, up) ==
    /\ Running
    /\ IF parent_ino \notin DOMAIN nodes
       THEN /\ reply' = Reply(Req("opendir", parent_ino, "", 0, {}, 0, 0), "error", [NoV EXCEPT !.errno = ENOENT])
            /\ UNCHANGED <<nodes, readdir_handles, next_readdir_handle, produced>>
       ELSE IF nodes[parent_ino].type # "Directory"
       THEN Abort(Req("opendir", parent_ino, "", 0, {}, 0, 0))
       ELSE OpendirChildren(Req("opendir", parent_ino, "", 0, {}, 0, 0),
                            DirCacheFiles(nodes[parent_ino].dir,
                                InnerFiles(nodes[parent_ino].dir.inner, up)))
    /\ UNCHANGED <<read_handles, next_read_handle, hasher>>
    /\ UNCHANGED <<ccVars, trVars, dcVars, lzVars, ioVars>>

\* readdir attaching to each entry its own index, not the next one
Readdir_ownindex(fh, offset, size) ==
    /\ Running
    /\ reply' = IF fh \notin DOMAIN readdir_handles
                THEN Reply(Req("readdir", 0, "", fh, {}, offset, size),
                           "error", [NoV EXCEPT !.errno = EBADF])
                ELSE Reply(Req("readdir", 0, "", fh, {}, offset, size), "dir",
                           [NoV EXCEPT !.dir =
                           [i \in 1..Min(size, Max(0, Len(readdir_handles[fh]) - offset)) |->
                              [ino |-> readdir_handles[fh][offset + i].ino,
                               offset |-> offset + (i - 1),
                               kind |-> readdir_handles[fh][offset + i].node.type,
                               name |-> readdir_handles[fh][offset + i].name]]])
    /\ UNCHANGED <<nodes, read_handles, next_read_handle, readdir_handles,
                   next_readdir_handle, produced, hasher>>
    /\ UNCHANGED <<ccVars, trVars, dcVars, lzVars, ioVars>>

\* FS::readdir (parent_ino is only traced); size: the number of entries
\* the reply buffer takes
Readdir(fh, offset, size) ==
    /\ Running
    /\ reply' = IF fh \notin DOMAIN readdir_handles
                THEN Reply(Req("readdir", 0, "", fh, {}, offset, size),
                           "error", [NoV EXCEPT !.errno = EBADF])
                ELSE Reply(Req("readdir", 0, "", fh, {}, offset, size), "dir",
                           [NoV EXCEPT !.dir =
                           [i \in 1..Min(size, Max(0, Len(readdir_handles[fh]) - offset)) |->
                              [ino |-> readdir_handles[fh][offset + i].ino,
                               offset |-> offset + (i - 1) + 1,
                               kind |-> readdir_handles[fh][offset + i].node.type,
                               name |-> readdir_handles[fh][offset + i].name]]])
    /\ UNCHANGED <<nodes, read_handles, next_read_handle, readdir_handles,
                   next_readdir_handle, produced, hasher>>
    /\ UNCHANGED <<ccVars, trVars, dcVars, lzVars, ioVars>>

\* FS::releasedir (parent_ino is only traced)
Releasedir(fh) ==
    /\ Running
    /\ readdir_handles' = remove(readdir_handles, fh)
    /\ reply' = Reply(Req("releasedir", 0, "", fh, {}, 0, 0), "ok", NoV)
    /\ UNCHANGED <<nodes, read_handles, next_read_handle, next_readdir_handle,
                   produced, hasher>>
    /\ UNCHANGED <<ccVars, trVars, dcVars, lzVars, ioVars>>

\* FS::access
Access(ino) ==
    /\ Running
    /\ reply' = Reply(Req("access", ino, "", 0, {}, 0, 0), "ok", NoV)
    /\ UNCHANGED <<nodes, read_handles, next_read_handle, readdir_handles,
                   next_readdir_handle, produced, hasher>>
    /\ UNCHANGED <<ccVars, trVars, dcVars, lzVars, ioVars>>

NextFS ==
    \/ \E ino \in InoSpace, name \in Names, up, attr_ok \in BOOLEAN :
          Lookup(ino, name, up, attr_ok) /\ UNCHANGED hist
    \/ \E ino \in InoSpace, attr_ok \in BOOLEAN :
          Getattr(ino, attr_ok) /\ UNCHANGED hist
    \/ \E ino \in InoSpace, link_ok \in BOOLEAN :
          Readlink(ino, link_ok) /\ UNCHANGED hist
    \/ \E ino \in InoSpace, flags \in FlagWords, open_ok \in BOOLEAN :
          /\ Open(ino, flags, open_ok)
          /\ next_read_handle' <= MaxHandles + 1
          /\ UNCHANGED hist
    \/ \E fh \in 1..(MaxHandles + 1), offset \in 0..FileLen, size \in 1..FileLen :
          Read(fh, offset, size) /\ UNCHANGED hist
    \/ \E fh \in 1..(MaxHandles + 1) : Release(fh) /\ UNCHANGED hist
    \/ \E ino \in InoSpace, up \in BOOLEAN :
          /\ Opendir(ino, up)
          /\ next_readdir_handle' <= MaxHandles + 1
          /\ UNCHANGED hist
    \/ \E fh \in 1..(MaxHandles + 1), offset \in 0..MaxListing, size \in 1..MaxListing :
          Readdir(fh, offset, size) /\ UNCHANGED hist
    \/ \E fh \in 1..(MaxHandles + 1) : Releasedir(fh) /\ UNCHANGED hist
    \/ \E ino \in InoSpace : Access(ino) /\ UNCHANGED hist

SpecFS == InitFS /\ [][NextFS]_vars

\* C7: in every reachable state inode 1 is in the inode table and holds the
\* root directory installed by FS::new.
C7_RootPinned ==
    /\ INO_ROOT \in DOMAIN nodes
    /\ nodes[INO_ROOT].type = "Directory"
    /\ nodes[INO_ROOT].dir.inner = Dir(0)

\* C8: every inode number reported for one (parent inode, name), by lookup
\* replies and by opendir listings alike, is the same number.
C8_InodeStable ==
    /\ \A pn \in InoSpace \X Names : Cardinality(produced[pn]) <= 1
    /\ (reply.req.op = "lookup" /\ reply.tag = "entry") =>
           produced[<<reply.req.ino, reply.req.name>>] = {reply.v.ino}

\* a lookup replies with the number an earlier opendir of the same parent
\* listed for that name
C8_Witness ==
    /\ reply.req.op = "lookup" /\ reply.tag = "entry"
    /\ reply.v.ino # reply.req.ino
    /\ nodes[reply.req.ino].type = "Directory"
    /\ nodes[reply.req.ino].dir.cached_files.some
    /\ \E fh \in DOMAIN readdir_handles :
         \E i \in 1..Len(readdir_handles[fh]) :
            /\ readdir_handles[fh][i].name = reply.req.name
            /\ readdir_handles[fh][i].ino = reply.v.ino
            /\ readdir_handles[fh][i].node = nodes[reply.v.ino]

\* C9: getattr of an inode number other than 1 that no lookup reply and no
\* opendir listing has produced replies ENOENT and changes no state.
C9_GetattrUnknown ==
    [][(/\ reply'.req.op = "getattr"
        /\ reply'.req.ino # INO_ROOT
        /\ reply'.req.ino \notin Produced)
       => /\ reply'.tag = "error" /\ reply'.v.errno = ENOENT
          /\ UNCHANGED <<nodes, read_handles, next_read_handle, readdir_handles,
                         next_readdir_handle, produced>>]_vars

\* getattr of a never produced number, after other numbers were produced
C9_Witness ==
    /\ reply.req.op = "getattr" /\ reply.tag = "error" /\ reply.v.errno = ENOENT
    /\ reply.req.ino \notin Produced \cup {INO_ROOT}
    /\ Produced # {}
    /\ Cardinality(DOMAIN nodes) >= 2

\* C10: open with append, create, exclusive or truncate set replies EROFS
\* whatever the inode, and leaves the read-handle table and the next-handle
\* counter as they were.
C10_WriteOpenRejected ==
    [][(/\ reply'.req.op = "open"
        /\ reply'.req.flags \cap {"O_APPEND", "O_CREAT", "O_EXCL", "O_TRUNC"} # {})
       => /\ reply'.tag = "error" /\ reply'.v.errno = EROFS
          /\ read_handles' = read_handles
          /\ next_read_handle' = next_read_handle]_vars

\* a write-intent open of an unknown inode is refused while a handle is open
C10_Witness ==
    /\ reply.req.op = "open" /\ reply.tag = "error" /\ reply.v.errno = EROFS
    /\ reply.req.flags = {"O_APPEND"}
    /\ reply.req.ino \notin DOMAIN nodes
    /\ DOMAIN read_handles # {}

\* C29: every request the responder handles ends in a reply, data or an
\* error code; none aborts the responder, whatever the type of the node
\* its inode holds.
C29_EveryRequestReplied ==
    reply.tag \in {"ok", "error", "entry", "attr", "data", "opened", "dir"}

\* ========================================================================
\* One LazyOpen over an in-memory resource, next to the same resource opened
\* eagerly: both are given the same seeks and reads.
\* ========================================================================
\* length of the wrapped resource
LazyLen == 3

LazyData == Bytes(0, LazyLen)

\* a Result as the caller sees it: position of a seek, bytes of a read, or
\* the message of the error
Seen(r, op) ==
    [ok |-> r.ok,
     ret |-> IF r.ok /\ op = "seek" THEN r.v ELSE -1,
     data |-> IF r.ok /\ op = "read" THEN r.v ELSE <<>>,
     err |-> IF r.ok THEN "" ELSE r.v]

\* LazyOpen::new / LazyOpen::with_size_hint; the opener succeeds or fails
InitLazy ==
    /\ \E size_hint \in {-1, LazyLen}, open_ok \in BOOLEAN :
          lz = LazyOpen(size_hint, Cursor(LazyData), open_ok)
    /\ lzRef = Cursor(LazyData)
    /\ lzLast = [op |-> "new", hinted |-> FALSE, touched |-> FALSE,
                 was_error |-> FALSE, after_hinted |-> FALSE,
                 got |-> Seen(R(0, TRUE, 0), "new"),
                 ref |-> Seen(R(0, TRUE, 0), "new")]
    /\ ConcatIdle /\ TrackIdle /\ DirCacheIdle /\ FSIdle /\ IoIdle

\* the position of the opened resource; 0 while there is none
LazyPos(f) == IF f.state = "Opened" THEN f.file.pos ELSE 0

\* the caller seeks (positions are kept within one byte past the end)
LSeek(pos) ==
    /\ lz' = LazyOpenSeek(lz, pos).f
    /\ lzRef' = CursorSeek(lzRef, pos).f
    /\ LazyPos(lz') <= LazyLen + 1 /\ lzRef'.pos <= LazyLen + 1
    /\ lzLast' = [op |-> "seek",
                  hinted |-> lz.size_hint # -1 /\ pos = End(0),
                  touched |-> lzLast.touched \/ ~(lz.size_hint # -1 /\ pos = End(0)),
                  was_error |-> lz.state = "Error",
                  after_hinted |-> lzLast.hinted,
                  got |-> Seen(LazyOpenSeek(lz, pos), "seek"),
                  ref |-> Seen(CursorSeek(lzRef, pos), "seek")]
    /\ UNCHANGED <<ccVars, trVars, dcVars, fsVars, ioVars>>

\* the caller reads into a buffer of n bytes
LRead(n) ==
    /\ lz' = LazyOpenRead(lz, n).f
    /\ lzRef' = CursorRead(lzRef, n).f
    /\ lzLast' = [op |-> "read", hinted |-> FALSE, touched |-> TRUE,
                  was_error |-> lz.state = "Error",
                  after_hinted |-> FALSE,
                  got |-> Seen(LazyOpenRead(lz, n), "read"),
                  ref |-> Seen(CursorRead(lzRef, n), "read")]
    /\ UNCHANGED <<ccVars, trVars, dcVars, fsVars, ioVars>>

LazySeeks ==
    {Start(k) : k \in 0..(LazyLen + 1)}
        \cup {End(d) : d \in {-LazyLen - 1, -1, 0, 1}}
        \cup {Current(d) : d \in {-1, 0, 1}}

NextLazy ==
    \/ \E pos \in LazySeeks : LSeek(pos)
    \/ \E n \in 1..MaxBuf : LRead(n)

SpecLazy == InitLazy /\ [][NextLazy]_vars

\* C14: the opener is not invoked by construction nor by any seek(End(0))
\* answered from the size hint, and each such seek returns the hint; it has
\* been invoked once any read or any other seek was issued.
C14_OpenerDeferred ==
    /\ lz.opens = (IF lzLast.touched THEN 1 ELSE 0)
    /\ lzLast.hinted => (lzLast.got.ok /\ lzLast.got.ret = lz.size_hint)
    /\ (lzLast.hinted /\ ~lzLast.touched) => lz.state = "Unopened"

\* a second seek(End(0)) in a row is answered from the hint, still unopened
C14_Witness ==
    /\ lzLast.hinted /\ lzLast.after_hinted /\ ~lzLast.touched
    /\ lz.opens = 0 /\ lz.state = "Unopened"
    /\ lzLast.got.ret = LazyLen

\* C15: the state only moves from Unopened to Opened or to Error and then
\* stays; it is never Init between two calls; the opener is invoked exactly
\* when the state moves, so at most once.
C15_StateMovesOnce ==
    [][/\ lz'.state \in {"Unopened", "Opened", "Error"}
       /\ lz'.state # lz.state => lz.state = "Unopened"
       /\ lz'.opens = lz.opens + (IF lz'.state # lz.state THEN 1 ELSE 0)
       /\ lz'.opens <= 1]_vars

\* a call on a LazyOpen whose opener had failed before: no second attempt
C15_Witness ==
    /\ lzLast.was_error /\ ~lzLast.hinted
    /\ lz.state = "Error" /\ lz.opens = 1

\* C16: once the opener has failed, every read and every seek, a
\* seek(End(0)) with a size hint included, returns the error of that failure.
C16_ErrorReplayed ==
    lzLast.was_error => (~lzLast.got.ok /\ lzLast.got.err = "open failed")

\* C17: with a size hint equal to the real size and an opener that succeeds,
\* every seek returns the position and every read the bytes that the eagerly
\* opened resource returns for the same calls.
C17_EquivalentToEager ==
    (lz.open_ok /\ lz.size_hint = LazyLen /\ lzLast.op # "new") =>
        lzLast.got = lzLast.ref

\* ==========================================================================
\* The handle tables of the FUSE responder as the kernel side sees them:
\* the requests that create, use and release handles, interleaved with
\* lookups, with what each reply showed recorded in hist.
\* ==========================================================================

\* handle ids issued per table
MaxIssued == 2

\* What the reply to the request just served adds to hist: the id returned
\* by open/opendir with the resource stored under it, the id released, and
\* for readdir the progress of the enumeration that starts at offset 0 and
\* continues at the offset attached to the last entry it was given.
Observe ==
    LET rq == reply'.req
        e == reply'.v.dir
        w == hist.walk
        busy == w.calls > 0 /\ ~w.done
    IN hist' =
        IF rq.op = "open" /\ reply'.tag = "opened"
        THEN [hist EXCEPT !.opened = insert(@, reply'.v.fh,
                                            read_handles'[reply'.v.fh].data)]
        ELSE IF rq.op = "release"
        THEN [hist EXCEPT !.released = @ \cup ({rq.fh} \cap DOMAIN hist.opened)]
        ELSE IF rq.op = "opendir" /\ reply'.tag = "opened"
        THEN [hist EXCEPT !.dir_opened = insert(@, reply'.v.fh,
                                                readdir_handles'[reply'.v.fh]),
                          !.walk.mixed = @ \/ busy]
        ELSE IF rq.op = "releasedir"
        THEN [hist EXCEPT !.dir_released = @ \cup ({rq.fh} \cap DOMAIN hist.dir_opened)]
        ELSE IF rq.op \in {"lookup", "opendir"}
        THEN [hist EXCEPT !.walk.mixed = @ \/ busy]
        ELSE IF rq.op = "readdir" /\ reply'.tag = "dir" /\ rq.offset = 0
        THEN [hist EXCEPT !.walk =
                [fh |-> rq.fh, next |-> IF e = <<>> THEN 0 ELSE e[Len(e)].offset,
                 got |-> e, calls |-> 1, done |-> e = <<>>, mixed |-> FALSE]]
        ELSE IF /\ rq.op = "readdir" /\ reply'.tag = "dir"
                /\ busy /\ rq.fh = w.fh /\ rq.offset = w.next
        THEN [hist EXCEPT !.walk =
                [w EXCEPT !.next = IF e = <<>> THEN @ ELSE e[Len(e)].offset,
                          !.got = @ \o e, !.calls = @ + 1, !.done = (e = <<>>)]]
        ELSE hist

NextHandles ==
    \/ \E ino \in InoSpace, name \in Names :
          Lookup(ino, name, TRUE, TRUE) /\ Observe
    \/ \E ino \in InoSpace, open_ok \in BOOLEAN :
          /\ Open(ino, {}, open_ok)
          /\ next_read_handle' <= MaxIssued + 1
          /\ Observe
    \/ \E fh \in 1..(MaxIssued + 1), offset \in 0..FileLen :
          Read(fh, offset, FileLen) /\ Observe
    \/ \E fh \in 1..(MaxIssued + 1) : Release(fh) /\ Observe
    \/ \E ino \in InoSpace, up \in BOOLEAN :
          /\ Opendir(ino, up)
          /\ next_readdir_handle' <= MaxIssued + 1
          /\ Observe
    \/ \E fh \in 1..(MaxIssued + 1) : Releasedir(fh) /\ Observe

SpecHandles == InitFS /\ [][NextHandles]_vars

\* C11: an id returned by open (opendir) was returned by no earlier open
\* (opendir), released or not; while an id is in its table it stands for
\* the reader (snapshot) it was issued for, a reader is moved only by a
\* read on its own id, and an id leaves its table only by its release.
C11_HandleIdsNeverReused ==
    [][/\ (reply'.req.op = "open" /\ reply'.tag = "opened") =>
            /\ reply'.v.fh \notin DOMAIN hist.opened
            /\ reply'.v.fh \in DOMAIN read_handles'
       /\ (reply'.req.op = "opendir" /\ reply'.tag = "opened") =>
            /\ reply'.v.fh \notin DOMAIN hist.dir_opened
            /\ reply'.v.fh \in DOMAIN readdir_handles'
       /\ \A fh \in DOMAIN read_handles :
            IF fh \in DOMAIN read_handles'
            THEN /\ read_handles'[fh].data = hist.opened[fh]
                 /\ read_handles'[fh] # read_handles[fh] =>
                        (reply'.req.op = "read" /\ reply'.req.fh = fh)
            ELSE reply'.req.op = "release" /\ reply'.req.fh = fh
       /\ \A fh \in DOMAIN readdir_handles :
            IF fh \in DOMAIN readdir_handles'
            THEN readdir_handles'[fh] = hist.dir_opened[fh]
            ELSE reply'.req.op = "releasedir" /\ reply'.req.fh = fh]_vars

\* the second open, after the first id was released, with two directory
\* ids issued and the first of them released
C11_Witness ==
    /\ reply.req.op = "open" /\ reply.tag = "opened" /\ reply.v.fh = 2
    /\ 1 \in hist.released /\ DOMAIN read_handles = {2}
    /\ DOMAIN hist.dir_opened = {1, 2} /\ 1 \in hist.dir_released
    /\ DOMAIN readdir_handles = {2}
    /\ readdir_handles[2] # hist.dir_opened[1]

\* C12: read replies EBADF exactly when its id was never returned by open
\* or has been released; between open and release it never does.
C12_ReadBadHandle ==
    [][reply'.req.op = "read" =>
         ((reply'.tag = "error" /\ reply'.v.errno = EBADF)
            <=> (\/ reply'.req.fh \notin DOMAIN hist.opened
                 \/ reply'.req.fh \in hist.released))]_vars

\* read on a released id replies EBADF while a later id is live and has
\* been read
C12_Witness ==
    /\ reply.req.op = "read" /\ reply.tag = "error" /\ reply.v.errno = EBADF
    /\ reply.req.fh = 1 /\ 1 \in hist.released
    /\ DOMAIN read_handles = {2} /\ read_handles[2].pos > 0

NextReaddir ==
    \/ \E ino \in InoSpace, name \in Names, up \in BOOLEAN :
          Lookup(ino, name, up, TRUE) /\ Observe
    \/ \E ino \in InoSpace, up \in BOOLEAN :
          /\ Opendir(ino, up)
          /\ next_readdir_handle' <= MaxIssued + 1
          /\ Observe
    \/ \E fh \in 1..(MaxIssued + 1), offset \in 0..MaxListing, size \in 1..MaxListing :
          Readdir(fh, offset, size) /\ Observe
    \/ \E fh \in 1..(MaxIssued + 1) : Releasedir(fh) /\ Observe

SpecReaddir == InitFS /\ [][NextReaddir]_vars

\* C13: the entries an enumeration has been given so far are the first
\* entries of the snapshot stored by the opendir of its handle, in snapshot
\* order and each once; every reply before the last adds at least one
\* entry, and the enumeration ends only when the whole snapshot was given.
C13_ReaddirEnumeratesSnapshot ==
    hist.walk.calls > 0 =>
        LET w == hist.walk
            snap == hist.dir_opened[w.fh]
        IN /\ w.next = Len(w.got)
           /\ Len(w.got) <= Len(snap)
           /\ \A i \in 1..Len(w.got) :
                /\ w.got[i].name = snap[i].name
                /\ w.got[i].ino = snap[i].ino
                /\ w.got[i].kind = snap[i].node.type
                /\ w.got[i].offset = i
           /\ ~w.done => Len(w.got) >= w.calls
           /\ w.done => Len(w.got) = Len(snap)

\* a two-entry snapshot enumerated one entry per reply, with a lookup or
\* an opendir in between and a second handle on another snapshot
C13_Witness ==
    /\ hist.walk.done /\ hist.walk.calls = 3 /\ Len(hist.walk.got) = 2
    /\ hist.walk.mixed /\ hist.walk.fh = 1
    /\ DOMAIN hist.dir_opened = {1, 2}
    /\ hist.dir_opened[2] # hist.dir_opened[1]

\* ==========================================================================
\* Concat over lazily opened sources: the calls of SpecConcat on a Concat
\* whose sources are in-memory cursors or LazyOpen wrappers around them, in
\* every position of the list, the last one included.
\* ==========================================================================

InitTail ==
    /\ \E n \in 1..MaxFiles : \E sizes \in [1..n -> 0..MaxChunk] :
       \E lazy \in SUBSET (1..n) : \E hinted, open_ok \in BOOLEAN :
          /\ lazy # {}
          /\ cc = Concat([i \in 1..n |->
                    IF i \in lazy
                    THEN LazyOpen(IF hinted THEN sizes[i] ELSE -1,
                                  Chunks(sizes)[i], open_ok)
                    ELSE Chunks(sizes)[i]])
          /\ ccData = Bytes(0, Sum(sizes))
    /\ ccOut = <<>>
    /\ ccFresh = TRUE
    /\ ccSeek = [pos |-> Start(0), ok |-> TRUE, ret |-> 0, back |-> FALSE]
    /\ ccLast = [op |-> "new", ok |-> TRUE, short |-> FALSE, eof |-> FALSE]
    /\ TrackIdle /\ DirCacheIdle /\ FSIdle /\ LazyIdle /\ IoIdle

SpecTail == InitTail /\ [][NextConcat]_vars

\* C18: seek(End(0)) on a Concat leaves every LazyOpen source that has a
\* size hint as it was, the last source of the list included: its opener is
\* not invoked and the file behind it is neither read nor moved.
C18_SeekEndLeavesLazyUnopened ==
    [][(ccLast'.op = "seek" /\ ccSeek'.pos = End(0)) =>
         \A i \in 1..Len(cc.files) :
            (cc.files[i].kind = "lazy" /\ cc.files[i].size_hint >= 0) =>
                /\ cc'.files[i].opens = cc.files[i].opens
                /\ cc'.files[i].state = cc.files[i].state
                /\ cc'.files[i].file = cc.files[i].file]_vars

\* ==========================================================================
\* One Skip or one Pattern next to an io::Cursor over the bytes it stands
\* for: both are given the same seeks and reads.
\* ==========================================================================
\* length of the stream wrapped by a Skip, largest size of a Pattern
StreamLen == 3

\* Skip::new over a Cursor, as in the test of skip.rs
InitSkip ==
    /\ \E d \in 0..StreamLen :
          /\ st = Skip(Cursor(Bytes(0, StreamLen)), d)
          /\ stRef = Cursor(SubSeq(Bytes(0, StreamLen), d + 1, StreamLen))
    /\ stLast = [op |-> "new", pos |-> NoSeek, n |-> 0,
                 got |-> Seen(R(0, TRUE, 0), "new"),
                 ref |-> Seen(R(0, TRUE, 0), "new")]
    /\ rs = "idle" /\ rsLog = "idle"
    /\ ConcatIdle /\ TrackIdle /\ DirCacheIdle /\ FSIdle /\ LazyIdle

\* Pattern::new
InitPattern ==
    /\ \E pat \in {<<>>, <<1>>, <<1, 2>>}, size \in 0..StreamLen, checked \in BOOLEAN :
          /\ st = [Pattern(pat, size) EXCEPT !.checked = checked]
          /\ stRef = Cursor([i \in 1..(IF pat = <<>> THEN 0 ELSE size) |->
                                pat[((i - 1) % Len(pat)) + 1]])
    /\ stLast = [op |-> "new", pos |-> NoSeek, n |-> 0,
                 got |-> Seen(R(0, TRUE, 0), "new"),
                 ref |-> Seen(R(0, TRUE, 0), "new")]
    /\ rs = "idle" /\ rsLog = "idle"
    /\ ConcatIdle /\ TrackIdle /\ DirCacheIdle /\ FSIdle /\ LazyIdle

\* the caller seeks (positions are kept within MaxBuf + 1 bytes past the end)
StSeek(pos) ==
    LET r == IF st.kind = "skip" THEN SkipSeek(st, pos) ELSE PatternSeek(st, pos)
    IN /\ st' = r.f
       /\ stRef' = CursorSeek(stRef, pos).f
       /\ stRef'.pos <= StreamLen + MaxBuf + 1
       /\ (IF st'.kind = "skip" THEN st'.inner.pos ELSE st'.offset)
             <= StreamLen + MaxBuf + 1
       /\ stLast' = [op |-> "seek", pos |-> pos, n |-> 0,
                     got |-> Seen(r, "seek"),
                     ref |-> Seen(CursorSeek(stRef, pos), "seek")]
       /\ UNCHANGED <<rs, rsLog, ccVars, trVars, dcVars, fsVars, lzVars>>

\* the caller reads into a buffer of n bytes
StRead(n) ==
    LET r == IF st.kind = "skip" THEN SkipRead(st, n) ELSE PatternRead(st, n)
    IN /\ st' = r.f
       /\ stRef' = CursorRead(stRef, n).f
       /\ (IF st'.kind = "skip" THEN st'.inner.pos ELSE st'.offset)
             <= StreamLen + MaxBuf + 1
       /\ stLast' = [op |-> "read", pos |-> NoSeek, n |-> n,
                     got |-> Seen(r, "read"),
                     ref |-> Seen(CursorRead(stRef, n), "read")]
       /\ UNCHANGED <<rs, rsLog, ccVars, trVars, dcVars, fsVars, lzVars>>

NextStream ==
    \/ \E pos \in {Start(k) : k \in 0..(StreamLen + 1)}
                  \cup {End(d) : d \in {-StreamLen - 1, -1, 0, 1}}
                  \cup {Current(d) : d \in {-1, 0, 1}} : StSeek(pos)
    \/ \E n \in 0..MaxBuf : StRead(n)

SpecSkip == InitSkip /\ [][NextStream]_vars

SpecPattern == InitPattern /\ [][NextStream]_vars

\* C27: with a non-empty pattern p and declared length n, a read into a
\* buffer of b bytes at offset o returns max(0, min(b, n - o)) bytes, byte
\* i being p[(o + i) mod |p|], and advances the offset by that count, also
\* when o > n; with an empty pattern every read returns 0 bytes.
C27_PatternRead ==
    [][stLast'.op = "read" =>
         IF st.pat = <<>>
         THEN stLast'.got.ok /\ stLast'.got.data = <<>>
         ELSE LET count == Max(0, Min(stLast'.n, st.size - st.offset))
              IN /\ stLast'.got.ok
                 /\ stLast'.got.data =
                       [i \in 1..count |-> st.pat[((st.offset + i - 1) % Len(st.pat)) + 1]]
                 /\ st'.offset = st.offset + count]_vars

\* C28: Skip(inner, d) answers every seek and read as the stream
\* inner[d..] does: a first read starts at inner offset d, seek(Start(k))
\* returns k and the read after it returns inner's bytes from d + k, also
\* when the seek comes before the first read.
C28_SkipIsInnerFromOffset ==
    /\ stLast.got.ok = stLast.ref.ok
    /\ stLast.got.ret = stLast.ref.ret
    /\ stLast.got.data = stLast.ref.data


\* ------------------------------------------------------------------------
\* soundcloud/util/http.rs: one RangeSeeker over a remote resource of fixed
\* size, and the calls its owner makes on it.
\* ------------------------------------------------------------------------
\* size of the largest remote resource
ResLen == 4
\* calls made on one RangeSeeker
MaxOps == 5

\* What a call on rs left behind: its result, the number of requests issued
\* since RangeSeeker::new and the fields of the seeker after the call.
Called(op, pos, n, r) ==
    [op |-> op, pos |-> pos, n |-> n, ok |-> r.ok,
     ret |-> IF r.ok /\ op = "seek" THEN r.v ELSE -1,
     data |-> IF r.ok /\ op = "read" THEN r.v ELSE <<>>,
     reqs |-> r.f.num_requests, off |-> r.f.current_offset,
     state |-> r.f.state, cache |-> r.f.response_cache]

\* RangeSeeker::new
InitRange ==
    /\ \E size \in 0..ResLen : rs = RangeSeeker(Bytes(0, size))
    /\ rsLog = <<>>
    /\ st = "idle" /\ stRef = "idle" /\ stLast = "idle"
    /\ ConcatIdle /\ TrackIdle /\ DirCacheIdle /\ FSIdle /\ LazyIdle

\* the owner seeks; a seeker whose next_resp does not return takes no
\* further call
RSeek(pos) ==
    LET r == RangeSeekerSeek(rs, pos)
    IN /\ rs.state # "Diverged"
       /\ Len(rsLog) < MaxOps
       /\ rs' = r.f
       /\ rsLog' = Append(rsLog, Called("seek", pos, 0, r))
       /\ UNCHANGED <<st, stRef, stLast, ccVars, trVars, dcVars, fsVars, lzVars>>

\* the owner reads into a buffer of n bytes
RRead(n) ==
    LET r == RangeSeekerRead(rs, n)
    IN /\ rs.state # "Diverged"
       /\ Len(rsLog) < MaxOps
       /\ rs' = r.f
       /\ rsLog' = Append(rsLog, Called("read", NoSeek, n, r))
       /\ UNCHANGED <<st, stRef, stLast, ccVars, trVars, dcVars, fsVars, lzVars>>

NextRange ==
    \/ \E pos \in {Start(k) : k \in 0..ResLen}
                  \cup {End(d) : d \in {1 - ResLen, -1, 0}}
                  \cup {Current(d) : d \in {-1}} : RSeek(pos)
    \/ \E n \in 1..MaxBuf : RRead(n)

SpecRange == InitRange /\ [][NextRange]_vars

C22_StashRevived ==
    LET N == Len(rs.data)
        L == rsLog
        pre(i) == IF i = 1 THEN 0 ELSE L[i - 1].off
        reqsBefore(i) == IF i = 1 THEN 0 ELSE L[i - 1].reqs
        held(i) == \/ i > 1 /\ L[i - 1].state = "Response"
                   \/ L[i].reqs = reqsBefore(i) + 1
    IN \A i \in 1..Len(L), j \in 1..Len(L) :
          (/\ i < j
           /\ L[i].op = "seek" /\ L[i].ok
           /\ held(i) /\ L[i].off # pre(i)
           /\ \A m \in (i + 1)..j : L[m].op = "seek"
           /\ L[j].ok /\ L[j].off = pre(i))
          => /\ L[j].state = "Response"
             /\ L[j].reqs = L[i].reqs
             /\ \A k \in (j + 1)..Len(L) :
                   (\A m \in (j + 1)..k : L[m].op = "read")
                   => /\ L[k].ok
                      /\ L[k].reqs = L[i].reqs
                      /\ L[k].data = SubSeq(rs.data, pre(k) + 1,
                                            Min(pre(k) + L[k].n, N))

\* seek(End(0)), seek(Start(0)), then the whole resource is read with the
\* one request of the first seek
C22_Witness ==
    /\ Len(rsLog) >= 4
    /\ rsLog[1].op = "seek" /\ rsLog[1].pos = End(0)
    /\ rsLog[2].op = "seek" /\ rsLog[2].pos = Start(0)
    /\ \A i \in 3..Len(rsLog) : rsLog[i].op = "read"
    /\ rsLog[3].data # <<>>
    /\ rsLog[Len(rsLog)].data = <<>>
    /\ rs.current_offset = Len(rs.data)
    /\ rs.num_requests = 1

\* C23 as stated: on a fresh RangeSeeker, a seek to an offset a inside the
\* resource, a read of part of the data, a seek to another offset b inside
\* the resource (neither a nor the offset the read stopped at) and reads
\* up to the one that returns 0 bytes reuse no stashed response, return
\* the bytes from b to the end and issue two requests in all.
C23_TwoRequests ==
    LET N == Len(rs.data)
        L == rsLog
        a == L[1].off
        k == Len(L[2].data)
        b == L[3].off
    IN (/\ Len(L) >= 5
        /\ L[1].op = "seek" /\ L[1].ok /\ 0 < a /\ a < N
        /\ L[2].op = "read" /\ L[2].ok /\ k >= 1 /\ a + k < N
        /\ L[3].op = "seek" /\ L[3].ok /\ 0 < b /\ b < N /\ b # a /\ b # a + k
        /\ \A i \in 4..Len(L) : L[i].op = "read"
        /\ L[Len(L)].data = <<>>)
       => /\ ~L[2].cache.has
          /\ rs.current_offset = N
          /\ rs.num_requests = 2

\* C23, amended: in that sequence no stashed response is reused (the first
\* read has dropped the stash; the second seek leaves state NoResponse, or
\* the response still open when b is the offset the first read stopped
\* at), the reads after the second seek return exactly the bytes from b to
\* the end, and the requests are: one for the length when the first seek is
\* End relative, one for the first read, one for the reads after the second
\* seek unless b is the offset the first read stopped at.
C23_RequestPerNewOffset ==
    LET N == Len(rs.data)
        L == rsLog
        a == L[1].off
        k == Len(L[2].data)
        b == L[3].off
        pre(i) == L[i - 1].off
        total == (IF L[1].pos.whence = "End" THEN 1 ELSE 0) + 1
                    + (IF b = a + k THEN 0 ELSE 1)
    IN (/\ Len(L) >= 4
        /\ L[1].op = "seek" /\ L[1].ok /\ 0 < a /\ a < N
        /\ L[2].op = "read" /\ L[2].ok /\ k >= 1 /\ a + k < N
        /\ L[3].op = "seek" /\ L[3].ok /\ 0 < b /\ b < N /\ b # a
        /\ \A i \in 4..Len(L) : L[i].op = "read")
       => /\ L[2].data = SubSeq(rs.data, a + 1, a + k)
          /\ ~L[2].cache.has
          /\ L[3].state = (IF b = a + k THEN "Response" ELSE "NoResponse")
          /\ \A i \in 4..Len(L) :
                /\ L[i].ok
                /\ L[i].reqs = total
                /\ L[i].data = SubSeq(rs.data, pre(i) + 1, Min(pre(i) + L[i].n, N))

\* seek(End(-3)), read 1 byte, seek(End(-1)), read to the end: three
\* requests (test_read_after_seek with small numbers)
C23_Witness ==
    /\ Len(rsLog) = 5
    /\ rsLog[1].op = "seek" /\ rsLog[1].pos.whence = "End" /\ rsLog[1].ok
    /\ rsLog[1].off \in 1..(Len(rs.data) - 1)
    /\ rsLog[2].op = "read" /\ Len(rsLog[2].data) = 1
    /\ rsLog[3].op = "seek" /\ rsLog[3].pos.whence = "End" /\ rsLog[3].ok
    /\ rsLog[3].off \in (rsLog[2].off + 1)..(Len(rs.data) - 1)
    /\ rsLog[4].op = "read" /\ rsLog[4].data # <<>>
    /\ rsLog[5].op = "read" /\ rsLog[5].data = <<>>
    /\ rs.num_requests = 3

\* C24: from any reachable RangeSeeker state, one seek followed by one read
\* issues at most two requests in total.
C24_AtMostTwoRequests ==
    LET L == rsLog
        m == Len(L)
        before == IF m = 2 THEN 0 ELSE L[m - 2].reqs
    IN (m >= 2 /\ L[m - 1].op = "seek" /\ L[m].op = "read")
       => L[m].reqs - before <= 2

\* C25: a read whose range request at the current offset is answered 416
\* does not fail: it returns 0 bytes and leaves the state OutOfRange, and a
\* further read at that offset returns 0 bytes without error.
C25_OutOfRangeIsEndOfStream ==
    LET L == rsLog
        pre(i) == IF i = 1 THEN 0 ELSE L[i - 1].off
        reqsBefore(i) == IF i = 1 THEN 0 ELSE L[i - 1].reqs
        answered416(i) == /\ L[i].op = "read"
                          /\ L[i].reqs > reqsBefore(i)
                          /\ ServerStatus(rs.data, pre(i)) = 416
    IN \A i \in 1..Len(L) :
          /\ answered416(i) =>
                L[i].ok /\ L[i].data = <<>> /\ L[i].state = "OutOfRange"
          /\ (i > 1 /\ answered416(i - 1) /\ L[i].op = "read") =>
                L[i].ok /\ L[i].data = <<>>

\* C26: a read of the responder (seek(Start(k)), then read(size)) whose
\* byte range lies inside the synthesized tag, header and leading padding
\* returns exactly those bytes and leaves the audio source as it was: the
\* opener is not invoked and no request is issued.  The first read whose
\* range reaches into the audio invokes the opener once and, the opener
\* succeeding, issues exactly one range request for the audio resource.
C26_OneRequestPastPadding ==
    [][trLast'.op = "read_at" =>
         LET k == trLast'.k
             size == trLast'.size
         IN /\ k + size <= AudioStart =>
                  /\ trLast'.ok
                  /\ trLast'.data = SubSeq(TrackBytes, k + 1, k + size)
                  /\ Audio(tr') = Audio(tr)
            /\ (/\ Audio(tr).opens = 0
                /\ k < AudioStart + AudioSize
                /\ k + size > AudioStart) =>
                  /\ Audio(tr').opens = 1
                  /\ Audio(tr).open_ok => Requests(tr') = 1]_vars

\* C31: in every reachable Concat state the discovered ranges are a prefix
\* of the prefix-sum partition of the sources (the first starts at 0, each
\* ends where the next begins, range i has the size of source i), and a
\* step only appends to the list: a range once added is never changed,
\* removed or reordered.
C31_RangesArePrefixSums ==
    [][/\ \A i \in 1..Len(cc'.ranges) :
             /\ i <= Len(cc'.files)
             /\ cc'.ranges[i].start =
                   Sum([j \in 1..(i - 1) |-> Len(cc'.files[j].data)])
             /\ cc'.ranges[i].end = cc'.ranges[i].start + Len(cc'.files[i].data)
       /\ Len(cc'.ranges) >= Len(cc.ranges)
       /\ \A i \in 1..Len(cc.ranges) : cc'.ranges[i] = cc.ranges[i]]_vars

\* both sources measured, the second one not empty
C31_Witness ==
    /\ Len(cc.files) = 2 /\ Len(cc.ranges) = 2
    /\ cc.ranges[1].end > 0
    /\ cc.ranges[2].end > cc.ranges[2].start

\* ------------------------------------------------------------------------
\* soundcloud/util/http.rs: the RangeSeeker in front of a server and a
\* network that may answer with other statuses and break off a body.  Only
\* the last call is kept in rsLog, and rs.net keeps what the network did
\* during it.
\* ------------------------------------------------------------------------
RSeekVia(pos, net) ==
    LET r == RangeSeekerSeek([rs EXCEPT !.net = net], pos)
    IN /\ rs.state # "Diverged"
       /\ r.f.num_requests <= MaxRequests
       /\ r.f.current_offset <= ResLen + 1
       /\ rs' = [r.f EXCEPT !.net = net]
       /\ rsLog' = <<Called("seek", pos, 0, r)>>
       /\ UNCHANGED <<st, stRef, stLast, ccVars, trVars, dcVars, fsVars, lzVars>>

RReadVia(n, net) ==
    LET r == RangeSeekerRead([rs EXCEPT !.net = net], n)
    IN /\ rs.state # "Diverged"
       /\ r.f.num_requests <= MaxRequests
       /\ rs' = [r.f EXCEPT !.net = net]
       /\ rsLog' = <<Called("read", NoSeek, n, r)>>
       /\ UNCHANGED <<st, stRef, stLast, ccVars, trVars, dcVars, fsVars, lzVars>>

NextServer ==
    \E statuses \in {<<>>, <<200>>, <<204>>, <<500>>, <<0, 200>>, <<0, 500>>} :
       \/ \E pos \in {Start(k) : k \in 0..ResLen}
                     \cup {End(d) : d \in {1 - ResLen, -1, 0}}
                     \cup {Current(d) : d \in {-1, 1}} :
             RSeekVia(pos, [statuses |-> statuses, cut |-> -1])
       \/ \E n \in 1..MaxBuf, cut \in {-1, 0, 1} :
             RReadVia(n, [statuses |-> statuses, cut |-> cut])

SpecServer == InitRange /\ [][NextServer]_vars

\* C32: the content length a RangeSeeker knows is the offset of the request
\* plus the Content-Length of its 200/206 answer, that is the total length
\* N of the resource whatever the offset of the request was; a seek(End(d))
\* made once the length is known returns N + d (and fails only when that
\* is negative), and so does the seek(End(d)) that learns the length.
C32_ContentLengthIsTotal ==
    [][LET N == Len(rs.data)
           e == rsLog'[1]
       IN /\ rs'.content_length \in {-1, N}
          /\ (e.op = "seek" /\ e.pos.whence = "End") =>
                /\ e.ok => e.ret = N + e.pos.off
                /\ (rs.content_length # -1 /\ N + e.pos.off >= 0) =>
                      e.ok /\ rs'.num_requests = rs.num_requests]_vars

\* seek(End(-1)) resolved while the response last opened, now stashed, is
\* one at a non-zero offset
C32_Witness ==
    /\ rsLog # <<>>
    /\ rsLog[1].op = "seek" /\ rsLog[1].pos = End(-1) /\ rsLog[1].ok
    /\ rsLog[1].ret = Len(rs.data) - 1
    /\ rs.response_cache.has /\ rs.response_cache.off > 0
    /\ rs.response_cache.off # rs.current_offset

\* C33: a call whose range request is answered with a status other than
\* 206, 416, or 200 at offset 0 (the request at the current offset, or the
\* one at offset 0 that follows a 416) fails with an error, leaves the state
\* NoResponse and hands no byte to the caller.
C33_OtherStatusIsError ==
    [][LET e == rsLog'[1]
           given == rs'.net.statuses
           c1 == IF Len(given) >= 1 THEN given[1] ELSE 0
           c2 == IF Len(given) >= 2 THEN given[2] ELSE 0
           q == rs'.num_requests - rs.num_requests
           other(code, off) == /\ code \notin {0, 206, 416}
                               /\ ~(code = 200 /\ off = 0)
       IN ((q >= 1 /\ other(c1, rs.current_offset)) \/ (q = 2 /\ other(c2, 0)))
          => /\ ~e.ok
             /\ e.data = <<>>
             /\ rs'.state = "NoResponse"]_vars

\* a read whose request at a non-zero offset was answered 200
C33_Witness ==
    /\ rsLog # <<>>
    /\ rsLog[1].op = "read" /\ ~rsLog[1].ok
    /\ rs.net = [statuses |-> <<200>>, cut |-> -1]
    /\ rs.current_offset > 0 /\ rs.current_offset < Len(rs.data)
    /\ rs.num_requests >= 1
    /\ rs.state = "NoResponse"

\* C38: in every reachable RangeSeeker state, also after a read that failed
\* part-way through a response body, the response held in state Response
\* delivers the resource byte at current_offset next, and the stashed
\* response (r, o) delivers the resource byte at offset o next.
C38_ResponseAtCurrentOffset ==
    /\ rs.state = "Response" => rs.resp = rs.current_offset
    /\ rs.response_cache.has => rs.response_cache.resp = rs.response_cache.off

\* C39: every read and every seek on a RangeSeeker returns after a bounded
\* number of requests, whatever the server answers, also when it answers
\* 416 to the request at offset 0.
C39_EveryCallReturns ==
    rs.state # "Diverged"

\* C34: a repeated successful lookup of a (parent, name) pair that names a
\* directory leaves the directory node stored at the child's inode as it
\* is, with the listing, the children and the negative entries it has
\* memoized (so that requests through that inode for them need no backend
\* call).
C34_RepeatedLookupKeepsMemo ==
    [][(/\ reply'.req.op = "lookup" /\ reply'.tag = "entry"
        /\ reply'.v.ino \in produced[<<reply'.req.ino, reply'.req.name>>]
        /\ reply'.v.ino \in DOMAIN nodes
        /\ reply'.v.ino # reply'.req.ino
        /\ nodes[reply'.v.ino].type = "Directory"
        /\ reply'.v.kind = "Directory")
       => nodes'[reply'.v.ino] = nodes[reply'.v.ino]]_vars

\* C35: no inode number is handed out for two different (parent inode,
\* name) pairs, and none of them is the root's number 1, so the insert of a
\* successful lookup replaces neither another pair's node nor the root.
C35_InodesDistinct ==
    /\ \A p, q \in InoSpace \X Names :
          p # q => produced[p] \cap produced[q] = {}
    /\ INO_ROOT \notin Produced

\* C36: a request answered with an error (a lookup, getattr, readlink,
\* open or opendir that fails, a read or readdir with an unknown handle)
\* leaves the inode table mapping the same inode numbers to the same nodes,
\* and leaves both handle tables and both handle counters as they were.
\* The table is compared by the node each number maps to; the memo a
\* directory node carries is the DirCache's state, not the table's.
C36_ErrorLeavesTables ==
    [][LET node(n) == IF n.type = "Directory"
                      THEN [type |-> n.type, of |-> n.dir.inner]
                      ELSE n
           table(t) == [i \in DOMAIN t |-> node(t[i])]
       IN (/\ reply'.tag = "error"
           /\ reply'.req.op \in {"read", "readdir"} =>
                  reply'.v.errno = EBADF)
          => /\ table(nodes') = table(nodes)
             /\ read_handles' = read_handles
             /\ readdir_handles' = readdir_handles
             /\ next_read_handle' = next_read_handle
             /\ next_readdir_handle' = next_readdir_handle]_vars

\* a lookup of a child that exists fails on its attributes while the table
\* holds a looked-up node and a listing is open
C36_Witness ==
    /\ reply.tag = "error" /\ reply.req.op = "lookup"
    /\ reply.v.errno = EIO
    /\ reply.req.ino \in DOMAIN nodes
    /\ nodes[reply.req.ino].type = "Directory"
    /\ reply.req.name \in DOMAIN nodes[reply.req.ino].dir.hidden_cached_files
    /\ Cardinality(DOMAIN nodes) >= 2
    /\ DOMAIN readdir_handles # {}

\* C37: the inode table changes only in a successful lookup, and then only
\* at the inode number the lookup replies with; no request removes an
\* entry, and getattr of a number that is not in the table (listed by
\* readdir or not) is answered ENOENT.
C37_OnlyLookupInserts ==
    [][LET node(n) == IF n.type = "Directory"
                      THEN [type |-> n.type, of |-> n.dir.inner]
                      ELSE n
           table(t) == [i \in DOMAIN t |-> node(t[i])]
       IN /\ DOMAIN nodes \subseteq DOMAIN nodes'
          /\ IF reply'.req.op = "lookup" /\ reply'.tag = "entry"
             THEN /\ DOMAIN nodes' = DOMAIN nodes \cup {reply'.v.ino}
                  /\ \A i \in DOMAIN nodes \ {reply'.v.ino} :
                        node(nodes'[i]) = node(nodes[i])
             ELSE table(nodes') = table(nodes)
          /\ (reply'.req.op = "getattr" /\ reply'.req.ino \notin DOMAIN nodes)
                => (reply'.tag = "error" /\ reply'.v.errno = ENOENT)]_vars

\* getattr of an inode number that an open listing reports and no lookup
\* has entered into the table is answered ENOENT
C37_Witness ==
    /\ reply.req.op = "getattr" /\ reply.tag = "error"
    /\ reply.v.errno = ENOENT
    /\ reply.req.ino \notin DOMAIN nodes
    /\ \E fh \in DOMAIN readdir_handles :
          \E i \in 1..Len(readdir_handles[fh]) :
             readdir_handles[fh][i].ino = reply.req.ino

\* TrackAudio::size: the tag's length, found by seeking a fresh tag to its
\* end, plus the hinted audio size and both paddings
TrackAudioSize ==
    LET id3_tag_size == seek(Cursor(TagData), End(0)).v
        padding_len == Len(ZeroHeaders(1))
        mp3_size == AudioSize + PaddingStart * padding_len + PaddingEnd * padding_len
    IN id3_tag_size + mp3_size

\* C40: the size TrackAudio::size reports for a track is the offset that
\* seek(End(0)) returns on the reader open_ro gives for it: the lengths of
\* the five sources added up, the audio counted at its size hint.
C40_SizeIsStreamEnd ==
    (trLast.op = "seek" /\ trLast.ok) => trLast.k = TrackAudioSize

=============================================================================
